---- MODULE Spec2Model ----
(***************************************************************************)
(* Verification model of the Nautobot lab jobs: device provisioning        *)
(* (jobs/provision_device.py), network-services configuration              *)
(* (jobs/configure_network_services.py), pre-flight data                   *)
(* (jobs/sitebuilder/preflight_data.py) and the device sessions of the     *)
(* connectivity test and the NAPALM sync.                                  *)
(*                                                                         *)
(* Every job is a single synchronous procedure.  A job's position is a pc  *)
(* variable; a call into a vendor SDK (NAPALM, pyeapi, paramiko) is an     *)
(* action whose outcome (normal return or a raised exception) is chosen    *)
(* nondeterministically, because the SDK and the device are external.      *)
(***************************************************************************)
EXTENDS Integers, Sequences, FiniteSets, TLC

VARIABLES
    \* ---- ProvisionDevice (provision_device.py) ----
    pd_pc,              \* position inside run / _deploy_config
    pd_args,            \* [dry_run, replace, commit]: the job's form variables
    pd_device,          \* inventory record of the device being provisioned
    pd_intended,        \* intended config held by Golden Config ("" = none)
    pd_napalm_device,   \* local napalm_device: FALSE = None, TRUE = driver object
    pd_diff,            \* local diff returned by compare_config
    pd_exc,             \* exception raised inside the try block (NoExc = none)
    pd_calls,           \* device operations called so far, in order
    pd_dev,             \* the device side: session open, candidate pending, committed
    pd_log,             \* key log lines written so far
    \* ---- ConfigureNetworkServices (configure_network_services.py) ----
    ns_pc,              \* "for" (loop head), "body" (inside the loop), "done", "raised"
    ns_args,            \* [config_ntp, config_dns, config_syslog, config_snmp, dry_run]
    ns_devices,         \* the devices argument: device ids, in list order
    ns_i,               \* number of devices the for loop has taken so far
    ns_mgmt_interface,  \* local mgmt_interface of the current iteration
    ns_config_commands, \* local config_commands of the current iteration
    ns_wire,            \* eAPI operations performed for the current device
    ns_connects,        \* per device: number of pyeapi.connect calls in this run
    ns_failed,          \* devices for which "Failed to apply configuration" was logged
    ns_log,             \* key log lines of the current iteration
    \* ---- PreflightDataJob (sitebuilder/preflight_data.py) ----
    pf_pc,              \* "types", "fields", "locations", "exit", "returned", "raised"
    pf_dry_run,         \* the dry_run form variable
    pf_known_cts,       \* content types the ContentType table can resolve
    pf_db,              \* the inventory as the running transaction sees it
    pf_db0,             \* the inventory when transaction.atomic() was entered
    pf_log,             \* key log lines written so far
    \* ---- ContainerlabConnectivityTest (containerlab_connectivity_test.py) ----
    ct_pc,              \* position inside run / _run_ping_test_via_ssh
    ct_in,              \* what the inventory and the host hold for the two VMs
    ct_ssh_open,        \* an SSH session to the source VM is open
    ct_calls,           \* paramiko operations called so far, in order
    ct_exit_code,       \* local exit_code (None until read)
    ct_exc,             \* exception caught by _run_ping_test_via_ssh ("none" = none)
    ct_ping,            \* value returned by _run_ping_test_via_ssh (None = not run)
    ct_result,          \* value returned by run ("none" = still running)
    \* ---- DeviceSyncNAPALM (device_sync_napalm.py) ----
    ds_pc,              \* position inside run
    ds_device,          \* inventory record of the device to sync
    ds_open,            \* a NAPALM session to the device is open
    ds_calls,           \* NAPALM and inventory operations called so far, in order
    ds_todo,            \* interfaces returned by get_interfaces still to be saved
    ds_exc,             \* exception caught by the outer try ("none" = none)
    \* ---- DeviceJobHookReceiver (device_hook.py) ----
    dh_pc,              \* "run", "provision" (inside _provision_device), "done"
    dh_in,              \* the hook's form variables and the event passed in kwargs
    dh_device,          \* local device: what Device.objects.get returned
    dh_triggered,       \* number of calls of _provision_device
    dh_runs,            \* executions of ProvisionDevice.run: their arguments
    dh_log,             \* key log lines written so far
    \* ---- InterfaceJobHookReceiver (interface_hook.py) ----
    ih_pc,              \* "run", "handle", "connect", "config", "save", "done"
    ih_in,              \* the event passed in kwargs and PYEAPI_AVAILABLE
    ih_interface,       \* local interface: what Interface.objects.get returned
    ih_device,          \* local device = interface.device
    ih_config_commands, \* local config_commands of the handler
    ih_wire,            \* eAPI operations performed, in order
    ih_log,             \* key log lines written so far
    \* ---- PreflightLabSetup (preflight_lab_setup.py) ----
    ls_pc,              \* "run", "secrets_groups", "associate", "devices", "rest", ...
    ls_statuses,        \* Status records of the inventory (names)
    ls_secrets_groups,  \* SecretsGroup records of the inventory (names)
    ls_devices,         \* Device records: name -> secrets_group (None = not set)
    ls_devices0,        \* the devices the inventory held when the run started
    ls_i,               \* items the current for loop has taken so far
    ls_log,             \* key log lines written so far
    \* ---- DeviceStatusMonitor (device_status_monitor.py) ----
    sm_pc,              \* position inside run
    sm_args,            \* [check_interfaces, check_system] and the Failed status
    sm_devices,         \* the devices queryset: device names, in order
    sm_i,               \* number of devices the for loop has taken so far
    sm_open,            \* devices to which a NAPALM session is open
    sm_results,         \* local results: device name -> entry
    sm_status,          \* inventory: device name -> name of its status
    sm_exc,             \* an exception is propagating out of the with block
    sm_calls,           \* NAPALM and inventory calls so far: <<device, call, outcome>>
    \* ---- NetworkDiscovery (network_discovery.py) ----
    nd_pc,              \* position inside run
    nd_args,            \* [discover_interfaces, discover_neighbors]
    nd_devices,         \* the devices queryset: device names, in order
    nd_i,               \* number of devices the for loop has taken so far
    nd_open,            \* devices to which a NAPALM session is open
    nd_results,         \* local discovery_results: device name -> entry
    nd_exc,             \* an exception is propagating out of the with block
    nd_calls,           \* NAPALM and inventory calls so far: <<device, call, outcome>>
    \* ---- access-loopback scripts (scripts/5_dynamic_config_..., 6_transform_...) ----
    lb_pc,              \* "start", "for", "done", "raised"
    lb_script,          \* 5 = the script, 6 = its job form ConfigureAccessLoopbacks
    lb_subnet,          \* ACCESS_LOOPBACK_SUBNET: its prefix length (base 10.99.1.0)
    lb_devices,         \* the target devices, ordered by name: [name, has_ip]
    lb_mapping,         \* script 5: mapping of assign_loopback_ips (name -> address)
    lb_idx,             \* number of devices the for loop has taken so far
    lb_pushed           \* loopbacks pushed so far: [name, lo0, lo1]

pdVars == <<pd_pc, pd_args, pd_device, pd_intended, pd_napalm_device, pd_diff,
            pd_exc, pd_calls, pd_dev, pd_log>>

nsVars == <<ns_pc, ns_args, ns_devices, ns_i, ns_mgmt_interface, ns_config_commands,
            ns_wire, ns_connects, ns_failed, ns_log>>

pfVars == <<pf_pc, pf_dry_run, pf_known_cts, pf_db, pf_db0, pf_log>>

ctVars == <<ct_pc, ct_in, ct_ssh_open, ct_calls, ct_exit_code, ct_exc, ct_ping, ct_result>>

dsVars == <<ds_pc, ds_device, ds_open, ds_calls, ds_todo, ds_exc>>

dhVars == <<dh_pc, dh_in, dh_device, dh_triggered, dh_runs, dh_log>>

ihVars == <<ih_pc, ih_in, ih_interface, ih_device, ih_config_commands, ih_wire, ih_log>>

lsVars == <<ls_pc, ls_statuses, ls_secrets_groups, ls_devices, ls_devices0, ls_i, ls_log>>

smVars == <<sm_pc, sm_args, sm_devices, sm_i, sm_open, sm_results, sm_status, sm_exc,
            sm_calls>>

ndVars == <<nd_pc, nd_args, nd_devices, nd_i, nd_open, nd_results, nd_exc, nd_calls>>

lbVars == <<lb_pc, lb_script, lb_subnet, lb_devices, lb_mapping, lb_idx, lb_pushed>>

vars == <<pdVars, nsVars, pfVars, ctVars, dsVars, dhVars, ihVars, lsVars, smVars, ndVars, lbVars>>

\* What each job leaves alone: the state of the other jobs.
pdOthers == <<nsVars, pfVars, ctVars, dsVars, dhVars, ihVars, lsVars, smVars,
              ndVars, lbVars>>
nsOthers == <<pdVars, pfVars, ctVars, dsVars, dhVars, ihVars, lsVars, smVars,
              ndVars, lbVars>>
pfOthers == <<pdVars, nsVars, ctVars, dsVars, dhVars, ihVars, lsVars, smVars,
              ndVars, lbVars>>
ctOthers == <<pdVars, nsVars, pfVars, dsVars, dhVars, ihVars, lsVars, smVars,
              ndVars, lbVars>>
dsOthers == <<pdVars, nsVars, pfVars, ctVars, dhVars, ihVars, lsVars, smVars,
              ndVars, lbVars>>
dhOthers == <<pdVars, nsVars, pfVars, ctVars, dsVars, ihVars, lsVars, smVars,
              ndVars, lbVars>>
ihOthers == <<pdVars, nsVars, pfVars, ctVars, dsVars, dhVars, lsVars, smVars,
              ndVars, lbVars>>
lsOthers == <<pdVars, nsVars, pfVars, ctVars, dsVars, dhVars, ihVars, smVars,
              ndVars, lbVars>>
smOthers == <<pdVars, nsVars, pfVars, ctVars, dsVars, dhVars, ihVars, lsVars,
              ndVars, lbVars>>
ndOthers == <<pdVars, nsVars, pfVars, ctVars, dsVars, dhVars, ihVars, lsVars,
              smVars, lbVars>>
lbOthers == <<pdVars, nsVars, pfVars, ctVars, dsVars, dhVars, ihVars, lsVars,
              smVars, ndVars>>

(***************************************************************************)
(* Helpers shared by the jobs                                              *)
(***************************************************************************)
RECURSIVE Count(_, _)
Count(s, x) == IF s = <<>> THEN 0
               ELSE (IF Head(s) = x THEN 1 ELSE 0) + Count(Tail(s), x)

NoExc == [kind |-> "none", by |-> "none"]

(***************************************************************************)
(* ProvisionDevice                                                         *)
(***************************************************************************)
\* Exceptions a NAPALM call can raise, as the handlers of _deploy_config tell
\* them apart: ConnectionException; CommitError / ReplaceConfigException; and
\* everything else (MergeConfigException and any other Exception).
PDExcKinds == {"ConnectionException", "CommitError", "ReplaceConfigException",
               "MergeConfigException", "Exception"}

PDDiffs == {"", "+ntp server 10.0.0.1"}

PDIdleDev == [open |-> FALSE, candidate |-> FALSE, committed |-> FALSE]

\* _validate_device: platform, platform.napalm_driver and primary_ip4 must be set.
ValidateDevice(device) ==
    /\ device.platform
    /\ device.napalm_driver
    /\ device.primary_ip4

\* if replace: load_replace_candidate else: load_merge_candidate
LoadCall_AlwaysMerge(replace) == "load_merge_candidate"

LoadCall(replace) ==
    IF replace THEN "load_replace_candidate" ELSE "load_merge_candidate"

\* The branch taken after compare_config (lines 270-303).
DeployBranch_IgnoreDryRun(diff, dry_run, commit) ==
    IF diff = "" THEN "discard_return"
    ELSE IF commit THEN "commit" ELSE "discard"

DeployBranch_CommitAlways(diff, dry_run, commit) ==
    IF diff = "" THEN "discard_return"
    ELSE IF dry_run THEN "discard"
    ELSE "commit"

DeployBranch(diff, dry_run, commit) ==
    IF diff = "" THEN "discard_return"
    ELSE IF dry_run THEN "discard"
    ELSE IF commit THEN "commit" ELSE "discard"

\* Device operations an except clause performs, by the exception caught.
ExceptCalls_AlsoClose(kind, napalm_device) ==
    IF kind \in {"ConnectionException", "CommitError", "ReplaceConfigException"}
    THEN <<>>
    ELSE IF napalm_device THEN <<"discard_config", "close">> ELSE <<>>

ExceptCalls(kind, napalm_device) ==
    IF kind \in {"ConnectionException", "CommitError", "ReplaceConfigException"}
    THEN <<>>
    ELSE IF napalm_device THEN <<"discard_config">> ELSE <<>>

\* finally: if napalm_device: napalm_device.close()
FinallyCalls_Never(napalm_device) == <<>>

FinallyCalls(napalm_device) ==
    IF napalm_device THEN <<"close">> ELSE <<>>

\* Effect of one NAPALM operation on the device.  ok = the call returned;
\* left = whether a failed load or commit leaves its candidate pending
\* (driver dependent).
DevApply(dev, op, ok, left) ==
    CASE op = "open" ->
            IF ok THEN [dev EXCEPT !.open = TRUE] ELSE dev
      [] op \in {"load_merge_candidate", "load_replace_candidate"} ->
            IF ok THEN [dev EXCEPT !.candidate = TRUE]
            ELSE [dev EXCEPT !.candidate = left]
      [] op = "discard_config" ->
            IF ok THEN [dev EXCEPT !.candidate = FALSE] ELSE dev
      [] op = "commit_config" ->
            IF ok THEN [dev EXCEPT !.candidate = FALSE, !.committed = TRUE]
            ELSE [dev EXCEPT !.candidate = dev.candidate /\ left]
      [] op = "close" ->
            IF ok THEN [dev EXCEPT !.open = FALSE] ELSE dev
      [] OTHER -> dev

RECURSIVE DevApplyAll(_, _, _)
DevApplyAll(dev, ops, ok) ==
    IF ops = <<>> THEN dev
    ELSE DevApplyAll(DevApply(dev, Head(ops), ok, FALSE), Tail(ops), ok)

PDInit ==
    /\ pd_pc = "run"
    /\ pd_args \in [dry_run : BOOLEAN, replace : BOOLEAN, commit : BOOLEAN]
    /\ pd_device \in [platform : BOOLEAN, napalm_driver : BOOLEAN, primary_ip4 : BOOLEAN]
    /\ pd_device.napalm_driver => pd_device.platform
    /\ pd_intended \in {"", "hostname access1"}
    /\ pd_napalm_device = FALSE
    /\ pd_diff = ""
    /\ pd_exc = NoExc
    /\ pd_calls = <<>>
    /\ pd_dev = PDIdleDev
    /\ pd_log = <<>>

\* run, lines 63-81: validation and intended config; returns early on failure.
PD_Run ==
    /\ pd_pc = "run"
    /\ IF ValidateDevice(pd_device) /\ pd_intended # ""
       THEN pd_pc' = "construct"
       ELSE pd_pc' = "returned"
    /\ UNCHANGED <<pd_args, pd_device, pd_intended, pd_napalm_device, pd_diff,
                   pd_exc, pd_calls, pd_dev, pd_log>>
    /\ UNCHANGED pdOthers

\* lines 242-248: get_network_driver(...) and driver(...).
PD_Construct ==
    /\ pd_pc = "construct"
    /\ \/ /\ pd_napalm_device' = TRUE
          /\ pd_pc' = "open"
          /\ UNCHANGED pd_exc
       \/ /\ pd_exc' = [kind |-> "Exception", by |-> "driver"]
          /\ pd_pc' = "except"
          /\ UNCHANGED pd_napalm_device
    /\ UNCHANGED <<pd_args, pd_device, pd_intended, pd_diff, pd_calls, pd_dev, pd_log>>
    /\ UNCHANGED pdOthers

\* One NAPALM call inside the try block: op is called; it returns (next) or
\* raises one of PDExcKinds (the matching except clause is entered).
PDCall(op, next) ==
    /\ pd_calls' = Append(pd_calls, op)
    /\ \/ /\ pd_dev' = DevApply(pd_dev, op, TRUE, FALSE)
          /\ pd_pc' = next
          /\ UNCHANGED pd_exc
       \/ \E k \in PDExcKinds, left \in BOOLEAN :
            /\ pd_dev' = DevApply(pd_dev, op, FALSE, left)
            /\ pd_exc' = [kind |-> k, by |-> op]
            /\ pd_pc' = "except"

\* line 251: napalm_device.open()
PD_Open ==
    /\ pd_pc = "open"
    /\ PDCall("open", "load")
    /\ UNCHANGED <<pd_args, pd_device, pd_intended, pd_napalm_device, pd_diff, pd_log>>
    /\ UNCHANGED pdOthers

\* lines 257-262: load_replace_candidate or load_merge_candidate
PD_Load ==
    /\ pd_pc = "load"
    /\ PDCall(LoadCall(pd_args.replace), "compare")
    /\ UNCHANGED <<pd_args, pd_device, pd_intended, pd_napalm_device, pd_diff, pd_log>>
    /\ UNCHANGED pdOthers

\* line 268: diff = napalm_device.compare_config()
PD_Compare ==
    /\ pd_pc = "compare"
    /\ PDCall("compare_config", "decide")
    /\ IF pd_pc' = "decide" THEN pd_diff' \in PDDiffs ELSE UNCHANGED pd_diff
    /\ UNCHANGED <<pd_args, pd_device, pd_intended, pd_napalm_device, pd_log>>
    /\ UNCHANGED pdOthers

\* lines 270-303: empty diff -> discard and return; dry run -> discard;
\* commit -> commit_config (then get_facts); commit disabled -> discard.
PD_Decide ==
    /\ pd_pc = "decide"
    /\ LET b == DeployBranch(pd_diff, pd_args.dry_run, pd_args.commit) IN
         IF b = "commit"
         THEN /\ PDCall("commit_config", "verify")
              /\ pd_log' = Append(pd_log, "Committing configuration changes...")
         ELSE /\ PDCall("discard_config", "finally")
              /\ pd_log' = Append(pd_log,
                    CASE b = "discard_return" -> "No configuration changes detected"
                      [] pd_args.dry_run -> "DRY RUN mode: Discarding configuration changes"
                      [] OTHER -> "Commit disabled: Changes loaded but not committed")
    /\ UNCHANGED <<pd_args, pd_device, pd_intended, pd_napalm_device, pd_diff>>
    /\ UNCHANGED pdOthers

\* line 297: facts = napalm_device.get_facts()
PD_Verify ==
    /\ pd_pc = "verify"
    /\ PDCall("get_facts", "finally")
    /\ UNCHANGED <<pd_args, pd_device, pd_intended, pd_napalm_device, pd_diff, pd_log>>
    /\ UNCHANGED pdOthers

\* lines 305-329: the except clauses.  ConnectionException and
\* CommitError/ReplaceConfigException only log; any other exception tries
\* discard_config (its own failure is caught and logged).
PD_Except ==
    /\ pd_pc = "except"
    /\ LET ops == ExceptCalls(pd_exc.kind, pd_napalm_device) IN
         /\ pd_calls' = pd_calls \o ops
         /\ \E ok \in BOOLEAN : pd_dev' = DevApplyAll(pd_dev, ops, ok)
    /\ pd_log' = Append(pd_log,
          CASE pd_exc.kind = "ConnectionException" -> "Connection error"
            [] pd_exc.kind \in {"CommitError", "ReplaceConfigException"} ->
                   "Configuration has been rolled back"
            [] OTHER -> "Unexpected error during deployment")
    /\ pd_pc' = "finally"
    /\ UNCHANGED <<pd_args, pd_device, pd_intended, pd_napalm_device, pd_diff, pd_exc>>
    /\ UNCHANGED pdOthers

\* lines 331-337: finally; then run logs completion (lines 93-95).
PD_Finally ==
    /\ pd_pc = "finally"
    /\ LET ops == FinallyCalls(pd_napalm_device) IN
         /\ pd_calls' = pd_calls \o ops
         /\ \E ok \in BOOLEAN : pd_dev' = DevApplyAll(pd_dev, ops, ok)
    /\ pd_log' = Append(pd_log, "Provisioning completed")
    /\ pd_pc' = "done"
    /\ UNCHANGED <<pd_args, pd_device, pd_intended, pd_napalm_device, pd_diff, pd_exc>>
    /\ UNCHANGED pdOthers

NextProvision ==
    \/ PD_Run
    \/ PD_Construct
    \/ PD_Open
    \/ PD_Load
    \/ PD_Compare
    \/ PD_Decide
    \/ PD_Verify
    \/ PD_Except
    \/ PD_Finally


(***************************************************************************)
(* ConfigureNetworkServices                                                *)
(***************************************************************************)
\* A CLI command is the sequence of its blank-separated words, so that
\* "begins with" is a comparison of leading words.
MaxDevices == 2
MaxServers == 1

\* Python's None, and truthiness of the values read from a config context.
None == "None"
Truthy(v) == v \notin {None, ""}

\* dict access: `k in d` and `d.get(k, default)`; <<>> is the empty dict.
Has(d, k) == k \in DOMAIN d
Get(d, k, default) == IF k \in DOMAIN d THEN d[k] ELSE default

\* Values the inventory can hold in a device's config context.
Addresses == <<"10.0.0.1", "10.0.0.2", "10.0.0.3">>
ServerLists == {SubSeq(Addresses, 1, n) : n \in 0..MaxServers}
SyslogEntry(k) == IF k % 2 = 1 THEN [host |-> Addresses[k]]
                  ELSE [host |-> Addresses[k], port |-> "1514"]
SyslogLists == {[k \in 1..n |-> SyslogEntry(k)] : n \in 0..MaxServers}
SnmpDicts == {<<>>, [community |-> "public"], [location |-> "lab"],
              [community |-> "public", location |-> "lab"]}
LoggingDicts == {[source_interface |-> "Management0"], [buffer_size |-> "10000"],
                 [source_interface |-> "Management0", buffer_size |-> "10000"]}

\* An optional dict entry: absent, or key k bound to one of vals.
Opt(k, vals) == {<<>>} \cup {k :> v : v \in vals}

AllExtras ==
    [ntp_source_interface |-> "Management0",
     logging |-> [source_interface |-> "Management0", buffer_size |-> "10000"],
     cli_commands |-> [save_config |-> <<"copy", "running-config", "startup-config">>]]

\* The optional platform_specific entries: none, all, or one of them alone.
PlatformExtras ==
    {<<>>, AllExtras}
    \cup Opt("ntp_source_interface", {"Management0"})
    \cup Opt("logging", LoggingDicts)
    \cup Opt("cli_commands", {[save_config |-> AllExtras.cli_commands.save_config]})

PlatformInfos ==
    {[management_interface |-> "Management0"] @@ e : e \in PlatformExtras}
    \cup {<<>>, [management_interface |-> "eth0"], [management_interface |-> "mgmt0"],
          [management_interface |-> "mgmt0"] @@ AllExtras}

\* device.get_config_context(), restricted to the entries run looks at: by the
\* short-circuit `config_x and 'x' in config_context` (lines 87, 93, 99, 105)
\* the entry of a service whose flag is off is never read, so it is left out.
\* The context is empty, or lacks platform_specific, or has it.
ServiceData(args) ==
    {a @@ b @@ c @@ d @@ e :
        a \in IF args.config_ntp THEN Opt("ntp_servers", ServerLists) ELSE {<<>>},
        b \in IF args.config_dns THEN Opt("dns_servers", ServerLists) ELSE {<<>>},
        c \in IF args.config_syslog THEN Opt("syslog_hosts", SyslogLists) ELSE {<<>>},
        d \in IF args.config_snmp THEN Opt("snmp", SnmpDicts) ELSE {<<>>},
        e \in Opt("domain_name", {"lab.local"})}

Contexts(args) ==
    {<<>>}
    \cup {s \in ServiceData(args) : Has(s, "domain_name")}
    \cup {[platform_specific |-> p] @@ s : p \in PlatformInfos, s \in ServiceData(args)}

\* _build_ntp_config (lines 141-163)
BuildNtpConfig_ResetLast(context, is_arista) ==
    LET ntp_servers == Get(context, "ntp_servers", <<>>)
    IN  [k \in 1..Len(ntp_servers) |->
               IF is_arista THEN <<"ntp", "server", ntp_servers[k]>>
               ELSE <<"/", "system", "ntp", "server", ntp_servers[k]>>]
        \o (IF is_arista THEN << <<"default", "ntp">> >> ELSE <<>>)

BuildNtpConfig(context, is_arista) ==
    LET ntp_servers == Get(context, "ntp_servers", <<>>)
        ntp_source == Get(Get(context, "platform_specific", <<>>),
                          "ntp_source_interface", None)
    IN  (IF is_arista THEN << <<"default", "ntp">> >> ELSE <<>>)
        \o [k \in 1..Len(ntp_servers) |->
               IF is_arista THEN <<"ntp", "server", ntp_servers[k]>>
               ELSE <<"/", "system", "ntp", "server", ntp_servers[k]>>]
        \o (IF is_arista /\ Truthy(ntp_source)
            THEN << <<"ntp", "local-interface", ntp_source>> >> ELSE <<>>)

\* _build_dns_config (lines 165-180)
BuildDnsConfig(context, is_arista) ==
    LET dns_servers == Get(context, "dns_servers", <<>>)
    IN  (IF is_arista THEN << <<"default", "ip", "name-server">> >> ELSE <<>>)
        \o [k \in 1..Len(dns_servers) |->
               IF is_arista THEN <<"ip", "name-server", dns_servers[k]>>
               ELSE <<"/", "system", "dns", "server-list", "[", dns_servers[k], "]">>]

\* _build_syslog_config (lines 182-212)
BuildSyslogConfig(context, is_arista, platform_info) ==
    LET syslog_hosts == Get(context, "syslog_hosts", <<>>)
        logging_config == Get(platform_info, "logging", <<>>)
        source_intf == Get(logging_config, "source_interface", None)
        buffer_size == Get(logging_config, "buffer_size", None)
    IN  (IF is_arista THEN << <<"default", "logging", "host">> >> ELSE <<>>)
        \o [k \in 1..Len(syslog_hosts) |->
               IF is_arista THEN <<"logging", "host", Get(syslog_hosts[k], "host", None)>>
               ELSE <<"/", "system", "logging", "remote-server",
                      Get(syslog_hosts[k], "host", None),
                      "port", Get(syslog_hosts[k], "port", "514")>>]
        \o (IF is_arista /\ Truthy(source_intf)
            THEN << <<"logging", "source-interface", source_intf>> >> ELSE <<>>)
        \o (IF is_arista /\ Truthy(buffer_size)
            THEN << <<"logging", "buffered", buffer_size>> >> ELSE <<>>)

\* _build_snmp_config (lines 214-235)
BuildSnmpConfig_OneDialect(context, is_arista) ==
    LET snmp == Get(context, "snmp", <<>>)
        community == Get(snmp, "community", None)
        location == Get(snmp, "location", None)
    IN  (IF Truthy(community) \/ Truthy(location)
         THEN << <<"default", "snmp-server">> >> ELSE <<>>)
        \o (IF Truthy(community)
            THEN << <<"snmp-server", "community", community, "ro">> >> ELSE <<>>)
        \o (IF Truthy(location)
            THEN << <<"snmp-server", "location", location>> >> ELSE <<>>)

BuildSnmpConfig(context, is_arista) ==
    LET snmp == Get(context, "snmp", <<>>)
        community == Get(snmp, "community", None)
        location == Get(snmp, "location", None)
    IN  IF is_arista
        THEN (IF Truthy(community) \/ Truthy(location)
              THEN << <<"default", "snmp-server">> >> ELSE <<>>)
             \o (IF Truthy(community)
                 THEN << <<"snmp-server", "community", community, "ro">> >> ELSE <<>>)
             \o (IF Truthy(location)
                 THEN << <<"snmp-server", "location", location>> >> ELSE <<>>)
        ELSE (IF Truthy(community)
              THEN << <<"/", "system", "snmp", "community", community,
                        "access-permissions", "ro">> >> ELSE <<>>)
             \o (IF Truthy(location)
                 THEN << <<"/", "system", "snmp", "location", location>> >> ELSE <<>>)

\* list.insert(0, x)
Insert0(s, x) == <<x>> \o s

\* lines 110-117: the domain name is put in front of the list.
AddDomainName(config_commands, context, is_arista, is_nokia) ==
    IF ~Has(context, "domain_name") THEN config_commands
    ELSE IF is_arista
         THEN Insert0(Insert0(config_commands, <<"dns", "domain", context["domain_name"]>>),
                      <<"default", "dns", "domain">>)
    ELSE IF is_nokia
         THEN Insert0(config_commands,
                      <<"/", "system", "name", "domain-name", context["domain_name"]>>)
    ELSE config_commands

\* lines 83-117: the command list of one device.
BuildCommands(context, args, is_arista, is_nokia) ==
    LET platform_info == Get(context, "platform_specific", <<>>)
        ntp == IF args.config_ntp /\ Has(context, "ntp_servers")
               THEN BuildNtpConfig(context, is_arista) ELSE <<>>
        dns == IF args.config_dns /\ Has(context, "dns_servers")
               THEN BuildDnsConfig(context, is_arista) ELSE <<>>
        syslog == IF args.config_syslog /\ Has(context, "syslog_hosts")
                  THEN BuildSyslogConfig(context, is_arista, platform_info) ELSE <<>>
        snmp == IF args.config_snmp /\ Has(context, "snmp")
                THEN BuildSnmpConfig(context, is_arista) ELSE <<>>
    IN  AddDomainName(ntp \o dns \o syslog \o snmp, context, is_arista, is_nokia)

\* lines 63-81: "skip" when the context is empty, has no platform_specific, or
\* its management_interface names neither platform.
PlatformOf(context) ==
    IF context = <<>> \/ ~Has(context, "platform_specific") THEN "skip"
    ELSE LET mgmt_interface == Get(context["platform_specific"], "management_interface", "")
         IN  IF mgmt_interface = "Management0" THEN "arista"
             ELSE IF mgmt_interface = "mgmt0" THEN "nokia"
             ELSE "skip"

\* lines 130-134: the configuration is applied only when this is no dry run.
ShouldApply_Always(dry_run) == TRUE

ShouldApply(dry_run) == ~dry_run

\* What the pyeapi calls of _apply_config_arista can do: all return ("ok"), or
\* pyeapi.connect, node.config or node.enable raises.
EapiOutcomes == {"ok", "connect", "config", "enable"}

\* line 277: the save command, 'write memory' unless cli_commands.save_config is set.
SaveCommand(platform_info) ==
    Get(Get(platform_info, "cli_commands", <<>>), "save_config", <<"write", "memory">>)

\* _apply_config_arista (lines 258-284): the eAPI operations performed, in
\* order, when the call named by outcome raises (or none does); raised marks
\* the call that raised.
AristaWire_SaveAfterFailedConfig(config_commands, platform_info, outcome) ==
    << [op |-> "connect", arg |-> <<>>, raised |-> outcome = "connect"] >>
    \o (IF outcome # "connect"
        THEN << [op |-> "config", arg |-> config_commands,
                 raised |-> outcome = "config"] >>
        ELSE <<>>)
    \o (IF outcome # "connect"
        THEN << [op |-> "enable", arg |-> SaveCommand(platform_info),
                 raised |-> outcome = "enable"] >>
        ELSE <<>>)

AristaWire(config_commands, platform_info, outcome) ==
    << [op |-> "connect", arg |-> <<>>, raised |-> outcome = "connect"] >>
    \o (IF outcome # "connect"
        THEN << [op |-> "config", arg |-> config_commands,
                 raised |-> outcome = "config"] >>
        ELSE <<>>)
    \o (IF outcome \notin {"connect", "config"}
        THEN << [op |-> "enable", arg |-> SaveCommand(platform_info),
                 raised |-> outcome = "enable"] >>
        ELSE <<>>)

\* _apply_config, lines 255-256: except Exception: log the failure (no re-raise).
ApplyConfigExcept_Reraise == "raise"

ApplyConfigExcept == "log"

NSNoArgs == [config_ntp |-> FALSE, config_dns |-> FALSE, config_syslog |-> FALSE,
             config_snmp |-> FALSE, dry_run |-> FALSE]

NSIdle ==
    /\ ns_pc = "idle"
    /\ ns_args = NSNoArgs
    /\ ns_devices = <<>>
    /\ ns_i = 0
    /\ ns_mgmt_interface = ""
    /\ ns_config_commands = <<>>
    /\ ns_wire = <<>>
    /\ ns_connects = <<>>
    /\ ns_failed = {}
    /\ ns_log = <<>>

NSInit ==
    /\ ns_pc = "for"
    /\ ns_args \in [config_ntp : BOOLEAN, config_dns : BOOLEAN, config_syslog : BOOLEAN,
                    config_snmp : BOOLEAN, dry_run : BOOLEAN]
    /\ ns_devices \in {[k \in 1..n |-> k] : n \in 1..MaxDevices}
    /\ ns_i = 0
    /\ ns_mgmt_interface = ""
    /\ ns_config_commands = <<>>
    /\ ns_wire = <<>>
    /\ ns_connects = [d \in 1..Len(ns_devices) |-> 0]
    /\ ns_failed = {}
    /\ ns_log = <<>>

\* line 56: the for statement takes the next device (the locals of the previous
\* iteration are dead); after the last device run logs completion and returns.
NS_For ==
    /\ ns_pc = "for"
    /\ IF ns_i < Len(ns_devices)
       THEN /\ ns_i' = ns_i + 1
            /\ ns_pc' = "body"
       ELSE /\ ns_pc' = "done"
            /\ UNCHANGED ns_i
    /\ ns_mgmt_interface' = ""
    /\ ns_config_commands' = <<>>
    /\ ns_wire' = <<>>
    /\ ns_log' = <<>>
    /\ UNCHANGED <<ns_args, ns_devices, ns_connects, ns_failed>>
    /\ UNCHANGED nsOthers

\* _apply_config_arista, lines 280-284, and _apply_config, lines 255-256: the
\* log lines of one push, by its outcome.
AristaLog(outcome) ==
    IF outcome = "ok" THEN <<"Configuration applied successfully">>
    ELSE <<"Failed to connect">>
         \o (IF ApplyConfigExcept = "log" THEN <<"Failed to apply configuration">> ELSE <<>>)

\* lines 57-134: the loop body for device ns_devices[ns_i], with _apply_config
\* (lines 237-256) and _apply_config_arista (lines 258-284).
NS_Body ==
    /\ ns_pc = "body"
    /\ \E context \in Contexts(ns_args) :
         LET device == ns_devices[ns_i]
             platform == PlatformOf(context)
             is_arista == platform = "arista"
             is_nokia == platform = "nokia"
             platform_info == Get(context, "platform_specific", <<>>)
             config_commands ==
                 IF platform = "skip" THEN <<>>
                 ELSE BuildCommands(context, ns_args, is_arista, is_nokia)
         IN  /\ ns_mgmt_interface' = Get(platform_info, "management_interface", "")
             /\ ns_config_commands' = config_commands
             /\ IF platform = "skip"
                THEN /\ ns_log' = <<"skipping">>
                     /\ ns_wire' = <<>> /\ ns_pc' = "for" /\ UNCHANGED <<ns_connects, ns_failed>>
                ELSE IF config_commands = <<>>
                THEN /\ ns_log' = <<"No configuration commands generated">>
                     /\ ns_wire' = <<>> /\ ns_pc' = "for" /\ UNCHANGED <<ns_connects, ns_failed>>
                ELSE IF ~ShouldApply(ns_args.dry_run)
                THEN /\ ns_log' = <<"DRY RUN - Configuration not applied">>
                     /\ ns_wire' = <<>> /\ ns_pc' = "for" /\ UNCHANGED <<ns_connects, ns_failed>>
                ELSE \E has_primary_ip \in BOOLEAN :
                       IF ~has_primary_ip
                       THEN /\ ns_log' = <<"No primary IP address">>
                            /\ ns_wire' = <<>> /\ ns_pc' = "for" /\ UNCHANGED <<ns_connects, ns_failed>>
                       ELSE IF ~is_arista
                       THEN /\ ns_log' = <<"Nokia configuration push not implemented">>
                            /\ ns_wire' = <<>> /\ ns_pc' = "for" /\ UNCHANGED <<ns_connects, ns_failed>>
                       ELSE \E outcome \in EapiOutcomes :
                              /\ ns_wire' = AristaWire(config_commands, platform_info, outcome)
                              /\ ns_connects' = [ns_connects EXCEPT ![device] = @ + 1]
                              /\ ns_log' = AristaLog(outcome)
                              /\ ns_failed' = IF outcome # "ok" /\ ApplyConfigExcept = "log"
                                               THEN ns_failed \cup {device} ELSE ns_failed
                              /\ ns_pc' = IF outcome = "ok" \/ ApplyConfigExcept = "log"
                                          THEN "for" ELSE "raised"
    /\ UNCHANGED <<ns_args, ns_devices, ns_i>>
    /\ UNCHANGED nsOthers

NextNetworkServices ==
    \/ NS_For
    \/ NS_Body

(***************************************************************************)
(* PreflightDataJob                                                        *)
(***************************************************************************)
\* The inventory: LocationType and Status records map a name to the set of
\* content types associated with it, CustomField records a key to its content
\* types; CustomFieldChoice records are <<key, value>> pairs; a Location is
\* [name, location_type, parent, status] (status None = no status_id).
DEFAULT_LOCATION_STATUS_NAME == "Active"

LOCATION_TYPES ==
    << [name |-> "Region", content_types |-> <<>>],
       [name |-> "Site",
        content_types |-> <<"dcim.rack", "dcim.device", "dcim.powerpanel",
                            "dcim.powerfeed", "ipam.prefix", "ipam.vlan">>] >>

LOCATIONS ==
    << [name |-> "US East", type |-> "Region"],
       [name |-> "US West", type |-> "Region"],
       [name |-> "Europe West", type |-> "Region"],
       [name |-> "Europe Central", type |-> "Region"],
       [name |-> "Asia Pacific", type |-> "Region"] >>

CUSTOM_FIELDS ==
    << [key |-> "site_slug", type |-> "text", choices |-> <<>>],
       [key |-> "site_code", type |-> "text", choices |-> <<>>],
       [key |-> "site_config_type", type |-> "select", choices |-> <<"v1", "v2.1", "v2.3">>],
       [key |-> "site_environment", type |-> "select",
        choices |-> <<"production", "staging", "development", "testing">>] >>

\* ContentType.objects.get_for_model(Location)
LocationCT == "dcim.location"

SiteCTs == {LOCATION_TYPES[2].content_types[k] :
               k \in 1..Len(LOCATION_TYPES[2].content_types)}

\* name__iexact compares names without case.
Lower(name) == IF name = "Active" THEN "active" ELSE name

Range(seq) == {seq[k] : k \in 1..Len(seq)}

\* _status_for_locations (lines 171-180): find the status by name (ignoring
\* case) or create it, and associate it with Location.  Runs in dry runs too.
StatusForLocations(db, name) ==
    LET found == {n \in DOMAIN db.statuses : Lower(n) = Lower(name)}
        status == IF found = {} THEN name ELSE CHOOSE n \in found : TRUE
        db1 == IF found = {}
               THEN [db EXCEPT !.statuses = @ @@ (name :> {})]
               ELSE db
        db2 == IF LocationCT \notin db1.statuses[status]
               THEN [db1 EXCEPT !.statuses[status] = @ \cup {LocationCT}]
               ELSE db1
    IN  [db |-> db2, status |-> status]

\* _ensure_location_types (lines 182-212), one spec of the list.
EnsureLocationType(db, spec, known_cts) ==
    LET db1 == IF spec.name \in DOMAIN db.location_types THEN db
               ELSE [db EXCEPT !.location_types = @ @@ (spec.name :> {})]
        resolved == Range(spec.content_types) \cap known_cts
    IN  [db1 EXCEPT !.location_types[spec.name] = @ \cup resolved]

RECURSIVE EnsureLocationTypes(_, _, _, _)
EnsureLocationTypes(db, specs, known_cts, dry_run) ==
    IF specs = <<>> \/ dry_run THEN db
    ELSE EnsureLocationTypes(EnsureLocationType(db, Head(specs), known_cts),
                             Tail(specs), known_cts, dry_run)

\* _ensure_custom_fields (lines 241-281), one field of the list.
EnsureCustomField(db, field_def) ==
    LET db1 == IF field_def.key \in DOMAIN db.custom_fields THEN db
               ELSE [db EXCEPT !.custom_fields = @ @@ (field_def.key :> {})]
        db2 == [db1 EXCEPT !.custom_fields[field_def.key] = @ \cup {LocationCT}]
    IN  IF field_def.type = "select" /\ field_def.choices # <<>>
        THEN [db2 EXCEPT !.choices =
                 @ \cup {<<field_def.key, v>> : v \in Range(field_def.choices)}]
        ELSE db2

RECURSIVE EnsureCustomFields(_, _, _)
EnsureCustomFields(db, fields, dry_run) ==
    IF fields = <<>> \/ dry_run THEN db
    ELSE EnsureCustomFields(EnsureCustomField(db, Head(fields)), Tail(fields), dry_run)

\* _ensure_locations (lines 311-345), one item of the list, after its
\* LocationType was found: the status is ensured before the dry_run test.
EnsureLocation(db, item, dry_run) ==
    LET s == StatusForLocations(db, DEFAULT_LOCATION_STATUS_NAME)
        key == [name |-> item.name, location_type |-> item.type, parent |-> None]
        match == {l \in s.db.locations :
                     [name |-> l.name, location_type |-> l.location_type,
                      parent |-> l.parent] = key}
    IN  IF dry_run THEN s.db
        ELSE IF match = {}
        THEN [s.db EXCEPT !.locations = @ \cup {key @@ [status |-> s.status]}]
        ELSE [s.db EXCEPT !.locations =
                 {IF l \in match /\ l.status = None
                  THEN [l EXCEPT !.status = s.status] ELSE l : l \in @}]

\* _ensure_locations (lines 307-345): [db, raised]; LocationType.objects.get
\* raises DoesNotExist when an item's type is missing.
RECURSIVE EnsureLocationItems(_, _, _)
EnsureLocationItems(db, locations, dry_run) ==
    IF locations = <<>> THEN [db |-> db, raised |-> FALSE]
    ELSE IF Head(locations).type \notin DOMAIN db.location_types
    THEN [db |-> db, raised |-> TRUE]
    ELSE EnsureLocationItems(EnsureLocation(db, Head(locations), dry_run),
                             Tail(locations), dry_run)

EnsureLocations(db, locations, dry_run) ==
    EnsureLocationItems(StatusForLocations(db, DEFAULT_LOCATION_STATUS_NAME).db,
                        locations, dry_run)

\* Leaving `with transaction.atomic()` (line 140) by an exception rolls the
\* inventory back to what it was on entry.
Rollback_KeepChanges(db_now, db_on_entry) == db_now

Rollback(db_now, db_on_entry) == db_on_entry

\* Starting inventories.
PFLocationTypes ==
    {<<>>,
     [Region |-> {}],
     [Site |-> {"dcim.rack", "dcim.device"}],
     [Region |-> {}, Site |-> SiteCTs]}

PFCustomFields ==
    {[custom_fields |-> <<>>, choices |-> {}],
     [custom_fields |-> [site_slug |-> {}], choices |-> {}],
     [custom_fields |-> [site_slug |-> {LocationCT}, site_code |-> {LocationCT},
                         site_config_type |-> {LocationCT},
                         site_environment |-> {LocationCT}],
      choices |-> {<<"site_config_type", "v1">>, <<"site_environment", "production">>}]}

PFStatuses ==
    {<<>>, [Active |-> {}], [Active |-> {LocationCT}], [active |-> {LocationCT}],
     [Planned |-> {LocationCT}]}

PFLocations(types, statuses) ==
    {{}}
    \cup {{[name |-> "US East", location_type |-> t, parent |-> None, status |-> st]} :
             t \in DOMAIN types, st \in {None} \cup DOMAIN statuses}
    \cup (IF "Region" \in DOMAIN types
          THEN {{[name |-> LOCATIONS[k].name, location_type |-> "Region",
                  parent |-> None, status |-> st] : k \in 1..Len(LOCATIONS)} :
                    st \in DOMAIN statuses}
          ELSE {})

PFInventories ==
    {[location_types |-> t, custom_fields |-> c.custom_fields, choices |-> c.choices,
      statuses |-> st, locations |-> l] :
        t \in PFLocationTypes, c \in PFCustomFields, st \in PFStatuses,
        l \in UNION {PFLocations(t2, st2) : t2 \in PFLocationTypes, st2 \in PFStatuses}}

PFEmptyDb == [location_types |-> <<>>, custom_fields |-> <<>>, choices |-> {},
              statuses |-> <<>>, locations |-> {}]

PFIdle ==
    /\ pf_pc = "idle"
    /\ pf_dry_run = FALSE
    /\ pf_known_cts = {}
    /\ pf_db = PFEmptyDb
    /\ pf_db0 = PFEmptyDb
    /\ pf_log = <<>>

PFInit ==
    /\ pf_pc = "types"
    /\ pf_dry_run \in BOOLEAN
    /\ pf_known_cts \in {SiteCTs, SiteCTs \ {"dcim.powerfeed"}}
    /\ pf_db \in {db \in PFInventories :
                     \A l \in db.locations :
                         /\ l.location_type \in DOMAIN db.location_types
                         /\ l.status \in {None} \cup DOMAIN db.statuses}
    /\ pf_db0 = pf_db
    /\ pf_log = IF pf_dry_run THEN <<"DRY RUN MODE - No changes will be made">> ELSE <<>>

\* A step inside the atomic block: it completes with inventory db (raised
\* FALSE), or it raises, by itself (raised TRUE) or by a database error; the
\* exception leaves the atomic block, is logged and re-raised (lines 165-167).
PFStep(msg, db, raised, next) ==
    \/ /\ ~raised
       /\ pf_db' = db
       /\ pf_pc' = next
       /\ pf_log' = Append(pf_log, msg)
    \/ /\ pf_db' = Rollback(db, pf_db0)
       /\ pf_pc' = "raised"
       /\ pf_log' = pf_log \o <<msg, "Failed to setup pre-flight data">>

\* lines 141-143
PF_EnsureLocationTypes ==
    /\ pf_pc = "types"
    /\ PFStep("Ensuring location types (and allowed content types) exist...",
              EnsureLocationTypes(pf_db, LOCATION_TYPES, pf_known_cts, pf_dry_run),
              FALSE, "fields")
    /\ UNCHANGED <<pf_dry_run, pf_known_cts, pf_db0>>
    /\ UNCHANGED pfOthers

\* lines 145-147
PF_EnsureCustomFields ==
    /\ pf_pc = "fields"
    /\ PFStep("Ensuring custom fields exist...",
              EnsureCustomFields(pf_db, CUSTOM_FIELDS, pf_dry_run), FALSE, "locations")
    /\ UNCHANGED <<pf_dry_run, pf_known_cts, pf_db0>>
    /\ UNCHANGED pfOthers

\* lines 149-152 (PRECREATE_LOCATIONS is True)
PF_EnsureLocations ==
    /\ pf_pc = "locations"
    /\ LET r == EnsureLocations(pf_db, LOCATIONS, pf_dry_run)
       IN  PFStep("Ensuring locations exist...", r.db, r.raised, "exit")
    /\ UNCHANGED <<pf_dry_run, pf_known_cts, pf_db0>>
    /\ UNCHANGED pfOthers

\* lines 157-163: the message is logged and returned; leaving the atomic
\* block normally commits what the transaction did.
PF_Return ==
    /\ pf_pc = "exit"
    /\ pf_pc' = "returned"
    /\ pf_log' = Append(pf_log,
          IF pf_dry_run THEN "Pre-flight data setup dry run completed - no changes made"
          ELSE "Pre-flight data setup completed successfully")
    /\ UNCHANGED <<pf_dry_run, pf_known_cts, pf_db, pf_db0>>
    /\ UNCHANGED pfOthers

NextPreflight ==
    \/ PF_EnsureLocationTypes
    \/ PF_EnsureCustomFields
    \/ PF_EnsureLocations
    \/ PF_Return

(***************************************************************************)
(* ContainerlabConnectivityTest                                            *)
(***************************************************************************)
\* Exceptions the handlers of _run_ping_test_via_ssh tell apart (lines 257-268).
CTExcKinds == {"AuthenticationException", "SSHException", "socket.timeout", "Exception"}

\* Exit codes of the remote ping: 0 = replies received, 1 = none, 2 = error.
CTExitCodes == {0, 1, 2}

\* run, lines 63-91: the checks made before any test; "" = go on to the test.
\* eth1 of a VM is "none" (no interface), "noip" (no address) or "ip";
\* mgmt is "primary_ip4", "primary_ip" or "none".
PreCheck_NoDestinationCheck(in) ==
    IF in.same_vm THEN "Error: Cannot test connectivity to same VM"
    ELSE IF in.source_eth1 # "ip" THEN "Error: source has no eth1 IP address"
    ELSE IF in.source_mgmt = "none" THEN "Error: source has no management IP"
    ELSE ""

PreCheck(in) ==
    IF in.same_vm THEN "Error: Cannot test connectivity to same VM"
    ELSE IF in.source_eth1 # "ip" THEN "Error: source has no eth1 IP address"
    ELSE IF in.dest_eth1 # "ip" THEN "Error: destination has no eth1 IP address"
    ELSE IF in.source_mgmt = "none" THEN "Error: source has no management IP"
    ELSE ""

\* lines 239-254: the ping passed iff the remote command exited with 0.
PingPassed_UnlessError(exit_code) == exit_code # 2

PingPassed(exit_code) == exit_code = 0

\* lines 111-122: one test was run; SUCCESS iff it passed.
Summary(ping) == IF ping THEN "SUCCESS" ELSE "FAILED"

CTIdle ==
    /\ ct_pc = "idle"
    /\ ct_in = [same_vm |-> TRUE, source_eth1 |-> "none", dest_eth1 |-> "none",
                source_mgmt |-> "none", paramiko |-> FALSE]
    /\ ct_ssh_open = FALSE
    /\ ct_calls = <<>>
    /\ ct_exit_code = None
    /\ ct_exc = "none"
    /\ ct_ping = None
    /\ ct_result = "none"

CTInit ==
    /\ ct_pc = "run"
    /\ ct_in \in [same_vm : BOOLEAN, source_eth1 : {"none", "noip", "ip"},
                  dest_eth1 : {"none", "noip", "ip"},
                  source_mgmt : {"primary_ip4", "primary_ip", "none"},
                  paramiko : BOOLEAN]
    /\ ct_in.same_vm => ct_in.source_eth1 = ct_in.dest_eth1
    /\ ct_ssh_open = FALSE
    /\ ct_calls = <<>>
    /\ ct_exit_code = None
    /\ ct_exc = "none"
    /\ ct_ping = None
    /\ ct_result = "none"

\* run, lines 56-91
CT_Run ==
    /\ ct_pc = "run"
    /\ IF PreCheck(ct_in) = ""
       THEN ct_pc' = "ping" /\ UNCHANGED ct_result
       ELSE ct_pc' = "returned" /\ ct_result' = PreCheck(ct_in)
    /\ UNCHANGED <<ct_in, ct_ssh_open, ct_calls, ct_exit_code, ct_exc, ct_ping>>
    /\ UNCHANGED ctOthers

\* _run_ping_test_via_ssh, lines 200-203: without paramiko the test fails.
CT_Ping ==
    /\ ct_pc = "ping"
    /\ IF ct_in.paramiko
       THEN ct_pc' = "connect" /\ UNCHANGED ct_ping
       ELSE ct_pc' = "summary" /\ ct_ping' = FALSE
    /\ UNCHANGED <<ct_in, ct_ssh_open, ct_calls, ct_exit_code, ct_exc, ct_result>>
    /\ UNCHANGED ctOthers

\* One paramiko call inside the try block: it returns, or it raises and the
\* matching except clause logs and returns False (lines 257-268).
CTCall(op, next) ==
    /\ ct_calls' = Append(ct_calls, op)
    /\ \/ /\ ct_pc' = next
          /\ UNCHANGED <<ct_exc, ct_ping>>
       \/ \E k \in CTExcKinds :
            /\ ct_exc' = k
            /\ ct_ping' = FALSE
            /\ ct_pc' = "summary"

\* lines 211-224: ssh.connect(...)
CT_Connect ==
    /\ ct_pc = "connect"
    /\ CTCall("connect", "exec")
    /\ ct_ssh_open' = (ct_pc' = "exec")
    /\ UNCHANGED <<ct_in, ct_exit_code, ct_result>>
    /\ UNCHANGED ctOthers

\* line 230: ssh.exec_command(ping_cmd)
CT_Exec ==
    /\ ct_pc = "exec"
    /\ CTCall("exec_command", "status")
    /\ UNCHANGED <<ct_in, ct_ssh_open, ct_exit_code, ct_result>>
    /\ UNCHANGED ctOthers

\* lines 231-233: recv_exit_status() and reading stdout and stderr
CT_ExitStatus ==
    /\ ct_pc = "status"
    /\ CTCall("recv_exit_status", "close")
    /\ IF ct_pc' = "close" THEN ct_exit_code' \in CTExitCodes ELSE UNCHANGED ct_exit_code
    /\ UNCHANGED <<ct_in, ct_ssh_open, ct_result>>
    /\ UNCHANGED ctOthers

\* lines 235-254: ssh.close(), then the result by the exit code
CT_Close ==
    /\ ct_pc = "close"
    /\ ct_calls' = Append(ct_calls, "close")
    /\ ct_ssh_open' = FALSE
    /\ ct_ping' = PingPassed(ct_exit_code)
    /\ ct_pc' = "summary"
    /\ UNCHANGED <<ct_in, ct_exit_code, ct_exc, ct_result>>
    /\ UNCHANGED ctOthers

\* run, lines 104-122
CT_Summary ==
    /\ ct_pc = "summary"
    /\ ct_result' = Summary(ct_ping)
    /\ ct_pc' = "returned"
    /\ UNCHANGED <<ct_in, ct_ssh_open, ct_calls, ct_exit_code, ct_exc, ct_ping>>
    /\ UNCHANGED ctOthers

(***************************************************************************)
(* DeviceSyncNAPALM                                                        *)
(***************************************************************************)
MaxInterfaces == 2

DSIdle ==
    /\ ds_pc = "idle"
    /\ ds_device = [napalm_driver |-> FALSE, primary_ip4 |-> FALSE]
    /\ ds_open = FALSE
    /\ ds_calls = <<>>
    /\ ds_todo = 0
    /\ ds_exc = "none"

DSInit ==
    /\ ds_pc = "run"
    /\ ds_device \in [napalm_driver : BOOLEAN, primary_ip4 : BOOLEAN]
    /\ ds_open = FALSE
    /\ ds_calls = <<>>
    /\ ds_todo = 0
    /\ ds_exc = "none"

\* run, lines 58-69: a platform with a NAPALM driver and a primary IPv4
\* address are required; lines 82-88 then build the driver object.
DS_Run ==
    /\ ds_pc = "run"
    /\ IF ds_device.napalm_driver /\ ds_device.primary_ip4
       THEN \/ ds_pc' = "open" /\ UNCHANGED ds_exc
            \/ ds_pc' = "done" /\ ds_exc' = "Exception"
       ELSE ds_pc' = "done" /\ UNCHANGED ds_exc
    /\ UNCHANGED <<ds_device, ds_open, ds_calls, ds_todo>>
    /\ UNCHANGED dsOthers

\* One call inside the outer try block: it returns, or it raises and one of
\* the except clauses (lines 194-199) logs the error; neither clause closes
\* the session.
DSCall(op, next) ==
    /\ ds_calls' = Append(ds_calls, op)
    /\ \/ /\ ds_pc' = next
          /\ UNCHANGED ds_exc
       \/ \E k \in {"ConnectionException", "Exception"} :
            /\ ds_exc' = k
            /\ ds_pc' = "done"

\* line 90: napalm_device.open()
DS_Open ==
    /\ ds_pc = "open"
    /\ DSCall("open", "facts")
    /\ ds_open' = (ds_pc' = "facts")
    /\ UNCHANGED <<ds_device, ds_todo>>
    /\ UNCHANGED dsOthers

\* line 95: napalm_device.get_facts()
DS_GetFacts ==
    /\ ds_pc = "facts"
    /\ DSCall("get_facts", "save")
    /\ UNCHANGED <<ds_device, ds_open, ds_todo>>
    /\ UNCHANGED dsOthers

\* line 110: device.save()
DS_SaveDevice ==
    /\ ds_pc = "save"
    /\ DSCall("device.save", "interfaces")
    /\ UNCHANGED <<ds_device, ds_open, ds_todo>>
    /\ UNCHANGED dsOthers

\* line 115: napalm_device.get_interfaces()
DS_GetInterfaces ==
    /\ ds_pc = "interfaces"
    /\ DSCall("get_interfaces", "interface")
    /\ IF ds_pc' = "interface" THEN ds_todo' \in 0..MaxInterfaces ELSE UNCHANGED ds_todo
    /\ UNCHANGED <<ds_device, ds_open>>
    /\ UNCHANGED dsOthers

\* lines 118-150: one interface of the loop is created or updated and saved;
\* after the last one the loop is left.
DS_SaveInterface ==
    /\ ds_pc = "interface"
    /\ IF ds_todo > 0
       THEN /\ DSCall("interface.save", "interface")
            /\ ds_todo' = ds_todo - 1
       ELSE /\ ds_pc' = "ips"
            /\ UNCHANGED <<ds_calls, ds_exc, ds_todo>>
    /\ UNCHANGED <<ds_device, ds_open>>
    /\ UNCHANGED dsOthers

\* lines 152-188: get_interfaces_ip and the IP addresses; the inner try
\* catches every exception of this part and logs a warning.
DS_GetInterfacesIp ==
    /\ ds_pc = "ips"
    /\ ds_calls' = Append(ds_calls, "get_interfaces_ip")
    /\ ds_pc' = "close"
    /\ UNCHANGED <<ds_device, ds_open, ds_todo, ds_exc>>
    /\ UNCHANGED dsOthers

\* lines 190-192: napalm_device.close()
DS_Close ==
    /\ ds_pc = "close"
    /\ DSCall("close", "done")
    /\ ds_open' = (ds_exc' # "none")    \* a close() that raised has closed nothing
    /\ UNCHANGED <<ds_device, ds_todo>>
    /\ UNCHANGED dsOthers

NextSessions ==
    \/ CT_Run
    \/ CT_Ping
    \/ CT_Connect
    \/ CT_Exec
    \/ CT_ExitStatus
    \/ CT_Close
    \/ CT_Summary
    \/ DS_Run
    \/ DS_Open
    \/ DS_GetFacts
    \/ DS_SaveDevice
    \/ DS_GetInterfaces
    \/ DS_SaveInterface
    \/ DS_GetInterfacesIp
    \/ DS_Close

(***************************************************************************)
(* DeviceJobHookReceiver (jobs/device_hook.py)                             *)
(***************************************************************************)
\* run, lines 105-112
config_relevant_fields == {"name", "primary_ip4", "platform", "role", "location", "status"}

\* Actions a hook event can carry; None = no action given.
DHActions == {None, "created", "create", "updated", "update", "deleted", "delete",
              "sync"}

\* Serialized object data: a dict from field names to values.
DHDicts(keys, values) == UNION {[S -> values] : S \in SUBSET keys}

\* The event in kwargs: an ObjectChange (object_data, object_data_v2) or the
\* old-style keys (action, changed_data); lines 44-57.
DHEvents ==
    {[object_change |-> TRUE, action |-> a, object_data |-> pre,
      object_data_v2 |-> post, changed_data |-> post] :
        a \in DHActions, pre \in DHDicts({"status", "comments"}, {"a", "b"}),
        post \in DHDicts({"status", "comments"}, {"a", "b"})}
    \cup
    {[object_change |-> FALSE, action |-> a, object_data |-> <<>>,
      object_data_v2 |-> <<>>, changed_data |-> cd] :
        a \in DHActions, cd \in DHDicts({"name", "status", "comments"}, {"a"})}

\* Devices the inventory can return for object_pk; found = FALSE stands for
\* Device.DoesNotExist.
DHStatuses == {None, "Active", "Planned", "Staged", "Decommissioning"}
DHNoDevice == [found |-> FALSE, platform |-> FALSE, napalm_driver |-> FALSE,
               primary_ip4 |-> FALSE, status |-> None]
DHDevices ==
    {d \in [found : {TRUE}, platform : BOOLEAN, napalm_driver : BOOLEAN,
            primary_ip4 : BOOLEAN, status : DHStatuses] :
        d.napalm_driver => d.platform}

\* run, lines 93-100: the fields taken as changed.
ChangedFields(in) ==
    IF in.object_change
    THEN {key \in DOMAIN in.object_data_v2 :
            Get(in.object_data, key, None) # Get(in.object_data_v2, key, None)}
    ELSE DOMAIN in.changed_data

\* run, lines 80-134: does this event call _provision_device?
ShouldProvision_AnyChange(in) ==
    IF in.action \in {"created", "create"} THEN in.auto_provision_on_create
    ELSE IF in.action \in {"updated", "update"}
    THEN ChangedFields(in) # {} /\ in.auto_provision_on_update
    ELSE FALSE

ShouldProvision(in) ==
    IF in.action \in {"created", "create"} THEN in.auto_provision_on_create
    ELSE IF in.action \in {"updated", "update"}
    THEN LET relevant_changes == ChangedFields(in) \cap config_relevant_fields
         IN  relevant_changes # {} /\ in.auto_provision_on_update
    ELSE FALSE

\* _validate_device_ready, lines 178-207
ValidateDeviceReady(device) ==
    /\ device.platform
    /\ device.napalm_driver
    /\ device.primary_ip4
    /\ ~(Truthy(device.status) /\ device.status \notin {"Active", "Planned", "Staged"})

\* provision_device.py line 63: the parameters of ProvisionDevice.run (after
\* self); the signature has no **kwargs.
RunParameters == {"device", "dry_run", "replace_config", "commit_changes"}

\* _provision_device, lines 159-165: the keyword arguments of the call.
RunKeywords(device, dry_run) ==
    [device |-> device, dry_run |-> dry_run, replace_config |-> FALSE,
     commit_changes |-> TRUE, show_debug |-> FALSE]

\* Python binds a call's keywords to the callee's parameters; a keyword that
\* names no parameter raises TypeError before the body runs.
Binds(parameters, keywords) == DOMAIN keywords \subseteq parameters

DHIdle ==
    /\ dh_pc = "idle"
    /\ dh_in = [auto_provision_on_create |-> FALSE, auto_provision_on_update |-> TRUE,
                dry_run |-> TRUE, object_change |-> FALSE, action |-> None,
                object_data |-> <<>>, object_data_v2 |-> <<>>, changed_data |-> <<>>]
    /\ dh_device = DHNoDevice
    /\ dh_triggered = 0
    /\ dh_runs = <<>>
    /\ dh_log = <<>>

DHInit ==
    /\ dh_pc = "run"
    /\ \E ev \in DHEvents, c, u, d \in BOOLEAN :
         dh_in = [auto_provision_on_create |-> c, auto_provision_on_update |-> u,
                  dry_run |-> d, object_change |-> ev.object_change,
                  action |-> ev.action, object_data |-> ev.object_data,
                  object_data_v2 |-> ev.object_data_v2,
                  changed_data |-> ev.changed_data]
    /\ dh_device = DHNoDevice
    /\ dh_triggered = 0
    /\ dh_runs = <<>>
    /\ dh_log = <<>>

\* run, lines 33-134
DH_Run ==
    /\ dh_pc = "run"
    /\ IF ~Truthy(dh_in.action)
       THEN /\ dh_log' = Append(dh_log, "Device hook triggered but no action provided")
            /\ dh_pc' = "done"
            /\ UNCHANGED <<dh_device, dh_triggered>>
       ELSE \E device \in DHDevices \cup {DHNoDevice} :
            /\ dh_device' = device
            /\ IF ~device.found
               THEN /\ dh_log' = Append(dh_log, "Device not found")
                    /\ dh_pc' = "done"
                    /\ UNCHANGED dh_triggered
               ELSE IF ShouldProvision(dh_in)
               THEN /\ dh_log' = Append(dh_log, "Auto-provision is enabled")
                    /\ dh_triggered' = dh_triggered + 1
                    /\ dh_pc' = "provision"
               ELSE /\ dh_log' = Append(dh_log, "No provisioning")
                    /\ dh_pc' = "done"
                    /\ UNCHANGED dh_triggered
    /\ UNCHANGED <<dh_in, dh_runs>>
    /\ UNCHANGED dhOthers

\* _provision_device, lines 136-176.  ProvisionDevice.run either returns or
\* raises; whatever is raised inside the try is logged, not re-raised.
DH_ProvisionDevice ==
    /\ dh_pc = "provision"
    /\ LET keywords == RunKeywords(dh_device, dh_in.dry_run)
       IN  IF ~ValidateDeviceReady(dh_device)
           THEN /\ dh_log' = Append(dh_log, "Device is not ready for provisioning. Skipping.")
                /\ UNCHANGED dh_runs
           ELSE IF ~Binds(RunParameters, keywords)
           THEN /\ dh_log' = Append(dh_log, "Error running provision job")
                /\ UNCHANGED dh_runs
           ELSE /\ dh_runs' = Append(dh_runs, keywords)
                /\ \E returned \in BOOLEAN :
                     dh_log' = Append(dh_log, IF returned THEN "Provision job completed"
                                              ELSE "Error running provision job")
    /\ dh_pc' = "done"
    /\ UNCHANGED <<dh_in, dh_device, dh_triggered>>
    /\ UNCHANGED dhOthers

NextDeviceHook ==
    \/ DH_Run
    \/ DH_ProvisionDevice

(***************************************************************************)
(* InterfaceJobHookReceiver (jobs/interface_hook.py)                       *)
(***************************************************************************)
\* Interface names are sequences of characters, so that lower() and
\* startswith() are computed as Python computes them.
UpperCase == <<"A", "B", "C", "D", "E", "F", "G", "H", "I", "J", "K", "L", "M",
               "N", "O", "P", "Q", "R", "S", "T", "U", "V", "W", "X", "Y", "Z">>
LowerCase == <<"a", "b", "c", "d", "e", "f", "g", "h", "i", "j", "k", "l", "m",
               "n", "o", "p", "q", "r", "s", "t", "u", "v", "w", "x", "y", "z">>

\* str.lower()
LowerChar(c) ==
    IF \E k \in 1..26 : UpperCase[k] = c
    THEN LowerCase[CHOOSE k \in 1..26 : UpperCase[k] = c]
    ELSE c
StrLower(str) == [k \in 1..Len(str) |-> LowerChar(str[k])]

\* str.startswith(prefix)
StartsWith(str, prefix) ==
    /\ Len(str) >= Len(prefix)
    /\ SubSeq(str, 1, Len(prefix)) = prefix

\* _is_physical_interface, line 127
physical_prefixes ==
    { <<"e", "t", "h", "e", "r", "n", "e", "t">>,
      <<"g", "i", "g", "a", "b", "i", "t", "e", "t", "h", "e", "r", "n", "e", "t">>,
      <<"t", "e", "n", "g", "i", "g", "a", "b", "i", "t", "e", "t", "h", "e", "r",
        "n", "e", "t">>,
      <<"e", "t", "h">> }

\* _is_physical_interface, lines 121-129
IsPhysicalInterface(name) ==
    LET interface_name == StrLower(name)
    IN  \E prefix \in physical_prefixes : StartsWith(interface_name, prefix)

\* Interface names the inventory can hold.
IHNames ==
    { <<"E", "t", "h", "e", "r", "n", "e", "t", "1">>,
      <<"E", "T", "H", "1">>,
      <<"e", "t", "h", "1">>,
      <<"G", "i", "g", "a", "b", "i", "t", "E", "t", "h", "e", "r", "n", "e", "t", "1">>,
      <<"T", "e", "n", "G", "i", "g", "a", "b", "i", "t", "E", "t", "h", "e", "r",
        "n", "e", "t", "1">>,
      <<"E", "t", "1">>,
      <<"M", "a", "n", "a", "g", "e", "m", "e", "n", "t", "1">>,
      <<"L", "o", "o", "p", "b", "a", "c", "k", "0">> }

\* Interfaces Interface.objects.get can return; found = FALSE stands for
\* Interface.DoesNotExist, has_device = FALSE for interface.device = None.
IHNoInterface == [found |-> FALSE, has_device |-> FALSE, name |-> <<>>]
IHInterfaces == [found : {TRUE}, has_device : BOOLEAN, name : IHNames]

\* The device of the interface; platform is the platform's name (None = no
\* platform).
IHPlatforms == {None, "Arista EOS", "arista_eos", "Nokia SR Linux"}
IHNoDevice == [primary_ip4 |-> FALSE, primary_ip |-> FALSE, platform |-> None]
IHDevices == [primary_ip4 : BOOLEAN, primary_ip : BOOLEAN, platform : IHPlatforms]

\* The event in kwargs (lines 46-60).
IHActions == {None, "created", "create", "updated", "update", "deleted", "delete",
              "sync"}
IHEvents ==
    {[object_change |-> TRUE, action |-> a, object_data |-> pre,
      object_data_v2 |-> post, changed_data |-> post] :
        a \in IHActions, pre \in DHDicts({"description", "label"}, {"a"}),
        post \in DHDicts({"description", "label"}, {"a", "b"})}
    \cup
    {[object_change |-> FALSE, action |-> a, object_data |-> <<>>,
      object_data_v2 |-> <<>>, changed_data |-> cd] :
        a \in IHActions, cd \in DHDicts({"mtu", "label"}, {"a"})}

\* run, lines 107-115: the keys of changed_data_dict
ChangedDataDict(in) == ChangedFields(in)

\* _handle_interface_update, line 153
relevant_fields == {"description", "enabled", "mode", "mtu", "type"}

\* run, lines 103-119 and _handle_interface_update, lines 153-156: does the
\* handler of this action build a configuration?
HandlerBuilds_AnyUpdate(in) ==
    in.action \in {"created", "create", "updated", "update"}

HandlerBuilds(in) ==
    IF in.action \in {"created", "create"} THEN TRUE
    ELSE IF in.action \in {"updated", "update"}
    THEN \E field \in relevant_fields : field \in ChangedDataDict(in)
    ELSE FALSE

\* run, lines 41-100: the reason run returns before it branches by action;
\* "" = none.
EarlyReturn(in, interface, device) ==
    IF ~in.pyeapi THEN "pyeapi not available - skipping device configuration"
    ELSE IF ~Truthy(in.action) THEN "Interface hook triggered but no action provided"
    ELSE IF in.action \in {"deleted", "delete"}
    THEN "Cannot sync delete to device - interface object no longer exists"
    ELSE IF ~in.object_pk THEN "No object_pk provided"
    ELSE IF ~interface.found THEN "Interface not found"
    ELSE IF ~interface.has_device THEN "Interface has no device - skipping"
    ELSE IF ~IsPhysicalInterface(interface.name)
    THEN "Interface is not physical - skipping device config"
    ELSE IF ~device.primary_ip4 /\ ~device.primary_ip
    THEN "Device has no primary IP - cannot connect"
    ELSE ""

\* _build_interface_config, lines 179-199
BuildInterfaceConfig(name, description, enabled, mtu) ==
    <<<<"interface", name>>,
      IF Truthy(description) THEN <<"description", description>>
      ELSE <<"no", "description">>,
      IF enabled THEN <<"no", "shutdown">> ELSE <<"shutdown">>>>
    \o (IF Truthy(mtu) /\ mtu # "1500" THEN <<<<"mtu", mtu>>>> ELSE <<>>)

\* _push_config_to_device, lines 217-222: 'arista' or 'eos' occurs in the
\* lower-cased platform name.
PlatformSupported(platform) == platform \in {"Arista EOS", "arista_eos"}

IHIdle ==
    /\ ih_pc = "idle"
    /\ ih_in = [pyeapi |-> FALSE, commit |-> TRUE, object_pk |-> FALSE,
                object_change |-> FALSE, action |-> None, object_data |-> <<>>,
                object_data_v2 |-> <<>>, changed_data |-> <<>>]
    /\ ih_interface = IHNoInterface
    /\ ih_device = IHNoDevice
    /\ ih_config_commands = <<>>
    /\ ih_wire = <<>>
    /\ ih_log = <<>>

IHInit ==
    /\ ih_pc = "run"
    /\ \E ev \in IHEvents, p, c, k \in BOOLEAN :
         ih_in = [pyeapi |-> p, commit |-> c, object_pk |-> k,
                  object_change |-> ev.object_change, action |-> ev.action,
                  object_data |-> ev.object_data,
                  object_data_v2 |-> ev.object_data_v2,
                  changed_data |-> ev.changed_data]
    /\ ih_interface = IHNoInterface
    /\ ih_device = IHNoDevice
    /\ ih_config_commands = <<>>
    /\ ih_wire = <<>>
    /\ ih_log = <<>>

\* run, lines 29-119, up to the call of the handler.  The inventory is read
\* only once the event has an action, is not a delete and has an object_pk.
IH_Run ==
    /\ ih_pc = "run"
    /\ \E interface \in IHInterfaces \cup {IHNoInterface}, device \in IHDevices :
         /\ EarlyReturn(ih_in, IHNoInterface, IHNoDevice)
                \notin {"Interface not found"} =>
              interface = IHNoInterface
         /\ ~interface.has_device => device = IHNoDevice
         /\ ih_interface' = interface
         /\ ih_device' = device
         /\ LET reason == EarlyReturn(ih_in, interface, device)
            IN  IF reason # ""
                THEN ih_log' = Append(ih_log, reason) /\ ih_pc' = "done"
                ELSE IF ih_in.action \in {"created", "create", "updated", "update"}
                THEN ih_log' = ih_log /\ ih_pc' = "handle"
                ELSE ih_log' = Append(ih_log, "no handler defined") /\ ih_pc' = "done"
    /\ UNCHANGED <<ih_in, ih_config_commands, ih_wire>>
    /\ UNCHANGED ihOthers

\* _handle_interface_create, lines 131-142, and _handle_interface_update,
\* lines 147-165, up to pyeapi.connect of _push_config_to_device (lines
\* 212-225).  An unsupported platform makes the push return without a
\* connection, and the handler logs success.
IH_Handle ==
    /\ ih_pc = "handle"
    /\ IF ~HandlerBuilds(ih_in)
       THEN /\ ih_log' = Append(ih_log, "No relevant fields changed - skipping device update")
            /\ ih_pc' = "done"
            /\ UNCHANGED ih_config_commands
       ELSE \E description \in {"", "uplink"}, enabled \in BOOLEAN,
               mtu \in {None, "1500", "9000"} :
            /\ ih_config_commands' =
                   BuildInterfaceConfig(ih_interface.name, description, enabled, mtu)
            /\ IF ~ih_in.commit
               THEN ih_log' = Append(ih_log, "Dry-run mode") /\ ih_pc' = "done"
               ELSE IF ~PlatformSupported(ih_device.platform)
               THEN /\ ih_log' = ih_log \o <<"Platform not supported for automatic config",
                                              "Successfully configured interface">>
                    /\ ih_pc' = "done"
               ELSE ih_log' = ih_log /\ ih_pc' = "connect"
    /\ UNCHANGED <<ih_in, ih_interface, ih_device, ih_wire>>
    /\ UNCHANGED ihOthers

\* One eAPI call inside the try of _push_config_to_device: it returns, or it
\* raises, the push logs and re-raises (lines 245-247) and the handler logs
\* the failure (lines 144-145, 167-168).  The wire keeps the call and
\* whether it raised.
IHCall(op, next) ==
    /\ \/ /\ ih_wire' = Append(ih_wire, <<op, FALSE>>)
          /\ ih_pc' = next
          /\ ih_log' = IF next = "done"
                       THEN Append(ih_log, "Successfully configured interface")
                       ELSE ih_log
       \/ /\ ih_wire' = Append(ih_wire, <<op, TRUE>>)
          /\ ih_pc' = "done"
          /\ ih_log' = ih_log \o <<"Failed to connect/configure",
                                   "Failed to configure interface">>
    /\ UNCHANGED <<ih_in, ih_interface, ih_device, ih_config_commands>>
    /\ UNCHANGED ihOthers

\* lines 228-235
IH_Connect == ih_pc = "connect" /\ IHCall(<<"connect">>, "config")

\* line 238
IH_Config == ih_pc = "config" /\ IHCall(<<"config", ih_config_commands>>, "save")

\* line 241
IH_Save == ih_pc = "save" /\ IHCall(<<"enable", <<"write", "memory">>>>, "done")

NextInterfaceHook ==
    \/ IH_Run
    \/ IH_Handle
    \/ IH_Connect
    \/ IH_Config
    \/ IH_Save

(***************************************************************************)
(* PreflightLabSetup (jobs/preflight_lab_setup.py)                         *)
(***************************************************************************)
\* _create_secrets_groups_and_associations, lines 252-263
secrets_group_configs == <<"Arista NAPALM Secrets Group", "Nokia NAPALM Secrets Group">>

\* lines 287-293, in the order the dict is iterated
device_secrets_mapping ==
    << <<"access1", "Arista NAPALM Secrets Group">>,
       <<"access2", "Arista NAPALM Secrets Group">>,
       <<"dist1", "Nokia NAPALM Secrets Group">>,
       <<"rtr1", "Nokia NAPALM Secrets Group">> >>

\* _create_devices, lines 590-595: the names of devices_data, in order
devices_data == <<"access1", "access2", "dist1", "rtr1">>

\* Device.objects.create(...), lines 603-613: secrets_group is not among the
\* arguments, so the new record has none.
CreateDevice(devices, name) == (name :> None) @@ devices

\* Inventories the job can start on.
LSDeviceSets == SUBSET Range(devices_data)
LSGroupSets == SUBSET Range(secrets_group_configs)
LSStatusSets == {{}, {"Active"}, {"Planned"}}

LSIdle ==
    /\ ls_pc = "idle"
    /\ ls_statuses = {}
    /\ ls_secrets_groups = {}
    /\ ls_devices = <<>>
    /\ ls_devices0 = {}
    /\ ls_i = 0
    /\ ls_log = <<>>

LSInit ==
    /\ ls_pc = "run"
    /\ ls_statuses \in LSStatusSets
    /\ ls_secrets_groups \in LSGroupSets
    /\ ls_devices0 \in LSDeviceSets
    /\ ls_devices = [name \in ls_devices0 |-> None]
    /\ ls_i = 0
    /\ ls_log = <<>>

\* run, lines 25-124: the status, location types, region, site and tags, and
\* the secrets of _create_napalm_credentials (lines 186-226).  Without any
\* Status the run returns; an inventory call that raises ends the run.
LS_Run ==
    /\ ls_pc = "run"
    /\ IF ls_statuses = {}
       THEN /\ ls_log' = Append(ls_log, <<"No status objects found">>)
            /\ ls_pc' = "returned"
       ELSE \/ ls_pc' = "secrets_groups" /\ ls_log' = ls_log
            \/ ls_pc' = "raised" /\ ls_log' = Append(ls_log, <<"Error during lab setup">>)
    /\ UNCHANGED <<ls_statuses, ls_secrets_groups, ls_devices, ls_devices0, ls_i>>
    /\ UNCHANGED lsOthers

\* _create_secrets_groups_and_associations, lines 265-283
LS_CreateSecretsGroups ==
    /\ ls_pc = "secrets_groups"
    /\ ls_secrets_groups' = ls_secrets_groups \cup Range(secrets_group_configs)
    /\ ls_pc' = "associate"
    /\ ls_i' = 0
    /\ UNCHANGED <<ls_statuses, ls_devices, ls_devices0, ls_log>>
    /\ UNCHANGED lsOthers

\* lines 295-308: one iteration of the association loop.  A device that is
\* not in the inventory, or whose save fails, is logged and skipped.
LS_Associate ==
    /\ ls_pc = "associate"
    /\ LET device_name == device_secrets_mapping[ls_i + 1][1]
           secrets_group_name == device_secrets_mapping[ls_i + 1][2]
       IN  IF device_name \notin DOMAIN ls_devices
           THEN /\ ls_log' = Append(ls_log, <<"Device not found", device_name>>)
                /\ UNCHANGED ls_devices
           ELSE \/ /\ ls_devices' = [ls_devices EXCEPT ![device_name] = secrets_group_name]
                   /\ ls_log' = Append(ls_log, <<"Associated secrets group", device_name>>)
                \/ /\ ls_log' = Append(ls_log, <<"Failed to associate secrets group",
                                                 device_name>>)
                   /\ UNCHANGED ls_devices
    /\ IF ls_i + 1 = Len(device_secrets_mapping)
       THEN ls_pc' = "devices" /\ ls_i' = 0
       ELSE ls_pc' = "associate" /\ ls_i' = ls_i + 1
    /\ UNCHANGED <<ls_statuses, ls_secrets_groups, ls_devices0>>
    /\ UNCHANGED lsOthers

\* _create_devices, lines 597-614: one iteration of the device loop (the
\* steps of run between the credentials and the devices create no device).
LS_CreateDevice ==
    /\ ls_pc = "devices"
    /\ LET name == devices_data[ls_i + 1]
       IN  IF name \in DOMAIN ls_devices
           THEN /\ UNCHANGED ls_devices
                /\ ls_log' = Append(ls_log, <<"Using existing device", name>>)
           ELSE /\ ls_devices' = CreateDevice(ls_devices, name)
                /\ ls_log' = Append(ls_log, <<"Created device", name>>)
    /\ IF ls_i + 1 = Len(devices_data)
       THEN ls_pc' = "rest" /\ ls_i' = 0
       ELSE ls_pc' = "devices" /\ ls_i' = ls_i + 1
    /\ UNCHANGED <<ls_statuses, ls_secrets_groups, ls_devices0>>
    /\ UNCHANGED lsOthers

\* run, lines 146-163: interfaces, cables and config contexts; none of them
\* writes a device's secrets_group.  The run completes or re-raises.
LS_Rest ==
    /\ ls_pc = "rest"
    /\ \/ /\ ls_pc' = "done"
          /\ ls_log' = Append(ls_log, <<"Pre-flight lab setup completed successfully!">>)
       \/ /\ ls_pc' = "raised"
          /\ ls_log' = Append(ls_log, <<"Error during lab setup">>)
    /\ UNCHANGED <<ls_statuses, ls_secrets_groups, ls_devices, ls_devices0, ls_i>>
    /\ UNCHANGED lsOthers

NextLabSetup ==
    \/ LS_Run
    \/ LS_CreateSecretsGroups
    \/ LS_Associate
    \/ LS_CreateDevice
    \/ LS_Rest

(***************************************************************************)
(* DeviceStatusMonitor (jobs/device_status_monitor.py)                     *)
(***************************************************************************)
MaxMonitored == 2

\* run, lines 57-62: the keys of device_drivers
device_drivers == {"access1", "access2", "dist1", "rtr1"}

\* Device names the queryset can hold: with a device_name given, any name.
SMNames == {"access1", "dist1", "sw9"}

\* Sequences of distinct names, at most n long.
DistinctSeqs(names, n) ==
    UNION {{s \in [1..k -> names] : \A a, b \in 1..k : a # b => s[a] # s[b]} : k \in 0..n}

\* lines 101-104: results[device_name] = {'status': 'connected', 'facts': facts}
SetConnected(results, name) ==
    (name :> [status |-> "connected", interfaces |-> FALSE]) @@ results

\* lines 111-115: results[device_name]['interfaces'] = {...}; the subscript
\* raises KeyError when results has no entry for the device.
SetInterfacesRaises(results, name) == name \notin DOMAIN results
SetInterfaces(results, name) ==
    [results EXCEPT ![name] = [@ EXCEPT !.interfaces = TRUE]]

\* line 124: results[device_name] = {'status': 'failed', 'error': str(e)}
SetFailed(results, name) ==
    (name :> [status |-> "failed", interfaces |-> FALSE]) @@ results

\* NetworkDriver.__exit__ calls close() whatever happened in the with block.
ExitCloses_OnSuccessOnly(open, name, exc) == IF exc THEN open ELSE open \ {name}

ExitCloses(open, name, exc) == open \ {name}

SMIdle ==
    /\ sm_pc = "idle"
    /\ sm_args = [check_interfaces |-> TRUE, check_system |-> TRUE,
                  failed_status |-> FALSE]
    /\ sm_devices = <<>>
    /\ sm_i = 0
    /\ sm_open = {}
    /\ sm_results = <<>>
    /\ sm_status = <<>>
    /\ sm_exc = FALSE
    /\ sm_calls = <<>>

SMInit ==
    /\ sm_pc = "run"
    /\ sm_args \in [check_interfaces : BOOLEAN, check_system : BOOLEAN,
                    failed_status : BOOLEAN]
    /\ sm_devices \in DistinctSeqs(SMNames, MaxMonitored)
    /\ sm_i = 0
    /\ sm_open = {}
    /\ sm_results = <<>>
    /\ sm_status = [name \in Range(sm_devices) |-> "Planned"]
    /\ sm_exc = FALSE
    /\ sm_calls = <<>>

SMName == sm_devices[sm_i]

\* run, lines 40-54
SM_Run ==
    /\ sm_pc = "run"
    /\ sm_pc' = IF sm_devices = <<>> THEN "returned" ELSE "for"
    /\ UNCHANGED <<sm_args, sm_devices, sm_i, sm_open, sm_results, sm_status, sm_exc,
                   sm_calls>>
    /\ UNCHANGED smOthers

\* lines 74-83: the loop head and the test of the device name
SM_For ==
    /\ sm_pc = "for"
    /\ IF sm_i = Len(sm_devices)
       THEN sm_pc' = "done" /\ UNCHANGED sm_i
       ELSE /\ sm_i' = sm_i + 1
            /\ sm_pc' = IF sm_devices[sm_i + 1] \in device_drivers THEN "enter" ELSE "for"
    /\ UNCHANGED <<sm_args, sm_devices, sm_open, sm_results, sm_status, sm_exc, sm_calls>>
    /\ UNCHANGED smOthers

\* lines 87-94: get_network_driver and the with statement, whose __enter__
\* opens the session or raises.
SM_Enter ==
    /\ sm_pc = "enter"
    /\ \/ /\ sm_calls' = Append(sm_calls, <<SMName, "open", "ok">>)
          /\ sm_open' = sm_open \cup {SMName}
          /\ sm_pc' = "facts"
       \/ /\ sm_calls' = Append(sm_calls, <<SMName, "open", "raised">>)
          /\ UNCHANGED sm_open
          /\ sm_pc' = "except"
    /\ UNCHANGED <<sm_args, sm_devices, sm_i, sm_results, sm_status, sm_exc>>
    /\ UNCHANGED smOthers

\* lines 98-104
SM_Facts ==
    /\ sm_pc = "facts"
    /\ IF ~sm_args.check_system
       THEN sm_pc' = "interfaces" /\ UNCHANGED <<sm_results, sm_exc, sm_calls>>
       ELSE \/ /\ sm_calls' = Append(sm_calls, <<SMName, "get_facts", "ok">>)
               /\ sm_results' = SetConnected(sm_results, SMName)
               /\ sm_pc' = "interfaces"
               /\ UNCHANGED sm_exc
            \/ /\ sm_calls' = Append(sm_calls, <<SMName, "get_facts", "raised">>)
               /\ sm_exc' = TRUE
               /\ sm_pc' = "exit"
               /\ UNCHANGED sm_results
    /\ UNCHANGED <<sm_args, sm_devices, sm_i, sm_open, sm_status>>
    /\ UNCHANGED smOthers

\* lines 107-115
SM_Interfaces ==
    /\ sm_pc = "interfaces"
    /\ IF ~sm_args.check_interfaces
       THEN sm_pc' = "status" /\ UNCHANGED <<sm_results, sm_exc, sm_calls>>
       ELSE \/ /\ sm_calls' = Append(sm_calls, <<SMName, "get_interfaces", "ok">>)
               /\ IF SetInterfacesRaises(sm_results, SMName)
                  THEN sm_exc' = TRUE /\ sm_pc' = "exit" /\ UNCHANGED sm_results
                  ELSE /\ sm_results' = SetInterfaces(sm_results, SMName)
                       /\ sm_pc' = "status"
                       /\ UNCHANGED sm_exc
            \/ /\ sm_calls' = Append(sm_calls, <<SMName, "get_interfaces", "raised">>)
               /\ sm_exc' = TRUE
               /\ sm_pc' = "exit"
               /\ UNCHANGED sm_results
    /\ UNCHANGED <<sm_args, sm_devices, sm_i, sm_open, sm_status>>
    /\ UNCHANGED smOthers

\* lines 118-120: the Active status is read and saved on the device
SM_SetActive ==
    /\ sm_pc = "status"
    /\ \/ /\ sm_calls' = Append(sm_calls, <<SMName, "save", "ok">>)
          /\ sm_status' = [sm_status EXCEPT ![SMName] = "Active"]
          /\ UNCHANGED sm_exc
       \/ /\ sm_calls' = Append(sm_calls, <<SMName, "save", "raised">>)
          /\ sm_exc' = TRUE
          /\ UNCHANGED sm_status
    /\ sm_pc' = "exit"
    /\ UNCHANGED <<sm_args, sm_devices, sm_i, sm_open, sm_results>>
    /\ UNCHANGED smOthers

\* the end of the with block (line 120 or a raise inside it): __exit__
SM_Exit ==
    /\ sm_pc = "exit"
    /\ sm_open' = ExitCloses(sm_open, SMName, sm_exc)
    /\ sm_pc' = IF sm_exc THEN "except" ELSE "for"
    /\ UNCHANGED <<sm_args, sm_devices, sm_i, sm_results, sm_status, sm_exc, sm_calls>>
    /\ UNCHANGED smOthers

\* lines 122-132
SM_Except ==
    /\ sm_pc = "except"
    /\ sm_results' = SetFailed(sm_results, SMName)
    /\ sm_status' = IF sm_args.failed_status
                    THEN [sm_status EXCEPT ![SMName] = "Failed"]
                    ELSE sm_status
    /\ sm_exc' = FALSE
    /\ sm_pc' = "for"
    /\ UNCHANGED <<sm_args, sm_devices, sm_i, sm_open, sm_calls>>
    /\ UNCHANGED smOthers

(***************************************************************************)
(* NetworkDiscovery (jobs/network_discovery.py)                            *)
(***************************************************************************)
NDIdle ==
    /\ nd_pc = "idle"
    /\ nd_args = [discover_interfaces |-> TRUE, discover_neighbors |-> TRUE]
    /\ nd_devices = <<>>
    /\ nd_i = 0
    /\ nd_open = {}
    /\ nd_results = <<>>
    /\ nd_exc = FALSE
    /\ nd_calls = <<>>

NDInit ==
    /\ nd_pc = "run"
    /\ nd_args \in [discover_interfaces : BOOLEAN, discover_neighbors : BOOLEAN]
    /\ nd_devices \in DistinctSeqs(SMNames, MaxMonitored)
    /\ nd_i = 0
    /\ nd_open = {}
    /\ nd_results = <<>>
    /\ nd_exc = FALSE
    /\ nd_calls = <<>>

NDName == nd_devices[nd_i]

\* run, lines 39-52
ND_Run ==
    /\ nd_pc = "run"
    /\ nd_pc' = IF nd_devices = <<>> THEN "returned" ELSE "for"
    /\ UNCHANGED <<nd_args, nd_devices, nd_i, nd_open, nd_results, nd_exc, nd_calls>>
    /\ UNCHANGED ndOthers

\* lines 71-80: the loop head and the test of the device name
ND_For ==
    /\ nd_pc = "for"
    /\ IF nd_i = Len(nd_devices)
       THEN nd_pc' = "done" /\ UNCHANGED nd_i
       ELSE /\ nd_i' = nd_i + 1
            /\ nd_pc' = IF nd_devices[nd_i + 1] \in device_drivers THEN "enter" ELSE "for"
    /\ UNCHANGED <<nd_args, nd_devices, nd_open, nd_results, nd_exc, nd_calls>>
    /\ UNCHANGED ndOthers

\* One call inside the with block: it returns, or it raises and the block
\* is left.
NDCall(call, next) ==
    \/ /\ nd_calls' = Append(nd_calls, <<NDName, call, "ok">>)
       /\ nd_pc' = next
       /\ UNCHANGED nd_exc
    \/ /\ nd_calls' = Append(nd_calls, <<NDName, call, "raised">>)
       /\ nd_pc' = "exit"
       /\ nd_exc' = TRUE

\* lines 83-90: get_network_driver and the with statement, whose __enter__
\* opens the session or raises.
ND_Enter ==
    /\ nd_pc = "enter"
    /\ \/ /\ nd_calls' = Append(nd_calls, <<NDName, "open", "ok">>)
          /\ nd_open' = nd_open \cup {NDName}
          /\ nd_pc' = "facts"
       \/ /\ nd_calls' = Append(nd_calls, <<NDName, "open", "raised">>)
          /\ UNCHANGED nd_open
          /\ nd_pc' = "except"
    /\ UNCHANGED <<nd_args, nd_devices, nd_i, nd_results, nd_exc>>
    /\ UNCHANGED ndOthers

\* lines 94-101
ND_Facts ==
    /\ nd_pc = "facts"
    /\ NDCall("get_facts", IF nd_args.discover_interfaces THEN "interfaces"
                           ELSE "neighbors")
    /\ nd_results' = IF nd_exc' THEN nd_results
                     ELSE (NDName :> "facts") @@ nd_results
    /\ UNCHANGED <<nd_args, nd_devices, nd_i, nd_open>>
    /\ UNCHANGED ndOthers

\* line 105
ND_GetInterfaces ==
    /\ nd_pc = "interfaces"
    /\ NDCall("get_interfaces", "save")
    /\ UNCHANGED <<nd_args, nd_devices, nd_i, nd_open, nd_results>>
    /\ UNCHANGED ndOthers

\* lines 108-129: the interfaces found are saved to the inventory; a missing
\* one is logged, a save that raises leaves the with block.
ND_SaveInterfaces ==
    /\ nd_pc = "save"
    /\ NDCall("save", "neighbors")
    /\ UNCHANGED <<nd_args, nd_devices, nd_i, nd_open, nd_results>>
    /\ UNCHANGED ndOthers

\* lines 132-144: a failing LLDP discovery is logged inside the with block
ND_Neighbors ==
    /\ nd_pc = "neighbors"
    /\ IF ~nd_args.discover_neighbors
       THEN UNCHANGED nd_calls
       ELSE \E outcome \in {"ok", "raised"} :
              nd_calls' = Append(nd_calls, <<NDName, "get_lldp_neighbors", outcome>>)
    /\ nd_pc' = "exit"
    /\ UNCHANGED <<nd_args, nd_devices, nd_i, nd_open, nd_results, nd_exc>>
    /\ UNCHANGED ndOthers

\* the end of the with block: __exit__
ND_Exit ==
    /\ nd_pc = "exit"
    /\ nd_open' = ExitCloses(nd_open, NDName, nd_exc)
    /\ nd_pc' = IF nd_exc THEN "except" ELSE "for"
    /\ UNCHANGED <<nd_args, nd_devices, nd_i, nd_results, nd_exc, nd_calls>>
    /\ UNCHANGED ndOthers

\* lines 146-148
ND_Except ==
    /\ nd_pc = "except"
    /\ nd_results' = (NDName :> "error") @@ nd_results
    /\ nd_exc' = FALSE
    /\ nd_pc' = "for"
    /\ UNCHANGED <<nd_args, nd_devices, nd_i, nd_open, nd_calls>>
    /\ UNCHANGED ndOthers

NextMonitoring ==
    \/ SM_Run
    \/ SM_For
    \/ SM_Enter
    \/ SM_Facts
    \/ SM_Interfaces
    \/ SM_SetActive
    \/ SM_Exit
    \/ SM_Except
    \/ ND_Run
    \/ ND_For
    \/ ND_Enter
    \/ ND_Facts
    \/ ND_GetInterfaces
    \/ ND_SaveInterfaces
    \/ ND_Neighbors
    \/ ND_Exit
    \/ ND_Except

(***************************************************************************)
(* The access-loopback script and its job form                             *)
(* (scripts/5_dynamic_config_access_ports_on_access1_and_access2.py,       *)
(*  scripts/6_transform_to_nautobot_job.py)                                *)
(***************************************************************************)
MaxTargets == 3

\* Prefix lengths of ACCESS_LOOPBACK_SUBNET; the network is 10.99.1.0.
LBPrefixLengths == {24, 30}

\* list(net.hosts()): the addresses between network and broadcast address.
Hosts(prefixlen) ==
    [k \in 1..(2^(32 - prefixlen) - 2) |-> <<10, 99, 1, k>>]

\* The names of a set of devices in ascending order (ordering=name,
\* order_by("name")); device k is named access<k>.
RECURSIVE OrderByName(_)
OrderByName(S) ==
    IF S = {} THEN <<>>
    ELSE LET first == CHOOSE x \in S : \A y \in S : x <= y
         IN  <<first>> \o OrderByName(S \ {first})

\* script 5, assign_loopback_ips, lines 32-39: does hosts[idx] raise
\* IndexError, and the mapping built otherwise.
AssignRaises(hosts, device_names) == Len(device_names) > Len(hosts)
assign_loopback_ips(hosts, device_names) ==
    [name \in Range(device_names) |->
        hosts[CHOOSE idx \in 1..Len(device_names) : device_names[idx] = name]]

\* script 5, main, lines 82-86: lo0 is the mapped address, lo1 the address
\* with the last octet incremented.
Loopbacks5(base) ==
    [lo0 |-> base, lo1 |-> <<base[1], base[2], base[3], base[4] + 1>>]

\* script 6, run, lines 37-38; idx counts from 0 as enumerate does.
Loopbacks6(hosts, idx) ==
    [lo0 |-> hosts[idx + 1],
     lo1 |-> IF idx + 1 < Len(hosts) THEN hosts[idx + 2] ELSE hosts[idx + 1]]

LBIdle ==
    /\ lb_pc = "idle"
    /\ lb_script = 5
    /\ lb_subnet = 24
    /\ lb_devices = <<>>
    /\ lb_mapping = <<>>
    /\ lb_idx = 0
    /\ lb_pushed = <<>>

LBInit ==
    /\ lb_pc = "start"
    /\ lb_script \in {5, 6}
    /\ lb_subnet \in LBPrefixLengths
    /\ \E S \in SUBSET (1..MaxTargets) :
         \E has_ip \in [S -> BOOLEAN] :
            lb_devices = [k \in 1..Cardinality(S) |->
                            [name |-> OrderByName(S)[k],
                             has_ip |-> has_ip[OrderByName(S)[k]]]]
    /\ lb_mapping = <<>>
    /\ lb_idx = 0
    /\ lb_pushed = <<>>

LBNames == [k \in 1..Len(lb_devices) |-> lb_devices[k].name]

\* script 5, main, lines 73-75; script 6, run, lines 27-31
LB_Start ==
    /\ lb_pc = "start"
    /\ IF lb_script = 5
       THEN IF AssignRaises(Hosts(lb_subnet), LBNames)
            THEN lb_pc' = "raised" /\ UNCHANGED lb_mapping
            ELSE /\ lb_pc' = "for"
                 /\ lb_mapping' = assign_loopback_ips(Hosts(lb_subnet), LBNames)
       ELSE lb_pc' = "for" /\ UNCHANGED lb_mapping
    /\ UNCHANGED <<lb_script, lb_subnet, lb_devices, lb_idx, lb_pushed>>
    /\ UNCHANGED lbOthers

\* One iteration of the device loop (script 5 lines 76-87, script 6 lines
\* 32-61): a device without primary IP is skipped; the eAPI push returns or
\* raises, and nothing catches what it raises.
LB_Push ==
    /\ lb_pc = "for"
    /\ lb_idx < Len(lb_devices)
    /\ LET dev == lb_devices[lb_idx + 1]
           hosts == Hosts(lb_subnet)
       IN  IF ~dev.has_ip
           THEN lb_pc' = "for" /\ UNCHANGED lb_pushed
           ELSE IF lb_script = 6 /\ lb_idx >= Len(hosts)
           THEN lb_pc' = "raised" /\ UNCHANGED lb_pushed
           ELSE LET lo == IF lb_script = 5 THEN Loopbacks5(lb_mapping[dev.name])
                          ELSE Loopbacks6(hosts, lb_idx)
                IN  \/ /\ lb_pushed' = Append(lb_pushed,
                              [name |-> dev.name, lo0 |-> lo.lo0, lo1 |-> lo.lo1])
                       /\ lb_pc' = "for"
                    \/ /\ lb_pc' = "raised"
                       /\ UNCHANGED lb_pushed
    /\ lb_idx' = lb_idx + 1
    /\ UNCHANGED <<lb_script, lb_subnet, lb_devices, lb_mapping>>
    /\ UNCHANGED lbOthers

\* the loop is over
LB_Done ==
    /\ lb_pc = "for"
    /\ lb_idx = Len(lb_devices)
    /\ lb_pc' = "done"
    /\ UNCHANGED <<lb_script, lb_subnet, lb_devices, lb_mapping, lb_idx, lb_pushed>>
    /\ UNCHANGED lbOthers

NextLoopbacks ==
    \/ LB_Start
    \/ LB_Push
    \/ LB_Done

(***************************************************************************)
(* Specifications: one per job; the other jobs are not running.            *)
(***************************************************************************)
PDIdle ==
    /\ pd_pc = "idle"
    /\ pd_args = [dry_run |-> TRUE, replace |-> FALSE, commit |-> TRUE]
    /\ pd_device = [platform |-> FALSE, napalm_driver |-> FALSE, primary_ip4 |-> FALSE]
    /\ pd_intended = ""
    /\ pd_napalm_device = FALSE
    /\ pd_diff = ""
    /\ pd_exc = NoExc
    /\ pd_calls = <<>>
    /\ pd_dev = PDIdleDev
    /\ pd_log = <<>>

\* Every job but the running ones is idle.
IdleExcept(running) ==
    /\ "pd" \in running \/ PDIdle
    /\ "ns" \in running \/ NSIdle
    /\ "pf" \in running \/ PFIdle
    /\ "ct" \in running \/ CTIdle
    /\ "ds" \in running \/ DSIdle
    /\ "dh" \in running \/ DHIdle
    /\ "ih" \in running \/ IHIdle
    /\ "ls" \in running \/ LSIdle
    /\ "sm" \in running \/ SMIdle
    /\ "nd" \in running \/ NDIdle
    /\ "lb" \in running \/ LBIdle

InitProvision == PDInit /\ IdleExcept({"pd"})

SpecProvision == InitProvision /\ [][NextProvision]_vars

InitNetworkServices == NSInit /\ IdleExcept({"ns"})

SpecNetworkServices == InitNetworkServices /\ [][NextNetworkServices]_vars

InitPreflight == PFInit /\ IdleExcept({"pf"})

SpecPreflight == InitPreflight /\ [][NextPreflight]_vars

\* The two jobs that open one device session each: either one is run.
InitSessions ==
    \/ CTInit /\ IdleExcept({"ct"})
    \/ DSInit /\ IdleExcept({"ds"})

SpecSessions == InitSessions /\ [][NextSessions]_vars

InitDeviceHook == DHInit /\ IdleExcept({"dh"})

SpecDeviceHook == InitDeviceHook /\ [][NextDeviceHook]_vars

InitInterfaceHook == IHInit /\ IdleExcept({"ih"})

SpecInterfaceHook == InitInterfaceHook /\ [][NextInterfaceHook]_vars

InitLabSetup == LSInit /\ IdleExcept({"ls"})

SpecLabSetup == InitLabSetup /\ [][NextLabSetup]_vars

\* The two jobs that visit the devices one after the other: either one is run.
InitMonitoring ==
    \/ SMInit /\ IdleExcept({"sm"})
    \/ NDInit /\ IdleExcept({"nd"})

SpecMonitoring == InitMonitoring /\ [][NextMonitoring]_vars

InitLoopbacks == LBInit /\ IdleExcept({"lb"})

SpecLoopbacks == InitLoopbacks /\ [][NextLoopbacks]_vars

\* The two jobs that push configuration over eAPI: either one is run.
NextPushes ==
    \/ NS_For
    \/ NS_Body
    \/ IH_Run
    \/ IH_Handle
    \/ IH_Connect
    \/ IH_Config
    \/ IH_Save

InitPushes ==
    \/ NSInit /\ IdleExcept({"ns"})
    \/ IHInit /\ IdleExcept({"ih"})

SpecPushes == InitPushes /\ [][NextPushes]_vars

(***************************************************************************)
(* Claims about ProvisionDevice._deploy_config (SpecProvision)             *)
(***************************************************************************)
PDLoads == {"load_merge_candidate", "load_replace_candidate"}

\* The run went through _deploy_config and no call raised.
PDNormalDone == pd_pc = "done" /\ pd_exc = NoExc

\* C1: with dry_run true commit_config is never called, whatever replace_config,
\* commit_changes and the diff are; once compare_config returned a non-empty
\* diff, the next device operation is discard_config.
C1_DryRunNeverCommits ==
    pd_args.dry_run =>
        /\ Count(pd_calls, "commit_config") = 0
        /\ ~pd_dev.committed
        /\ (pd_diff # "" /\ Len(pd_calls) >= 4) => pd_calls[4] = "discard_config"

C1_Witness ==
    /\ pd_pc = "done"
    /\ pd_args.dry_run /\ pd_args.commit /\ pd_args.replace
    /\ pd_diff # ""
    /\ pd_calls = <<"open", "load_replace_candidate", "compare_config",
                    "discard_config", "close">>

\* C6: the device operations occur in the order open, load, compare_config,
\* commit or discard.  At most one load is ever called and it is the one the
\* replace flag selects; commit_config is called only as the fourth operation,
\* after open, that load and a compare_config that returned a non-empty diff,
\* with dry_run false and commit true.  A run that completes without an
\* exception has called exactly one load, and has called discard_config
\* instead of commit_config in every other case.
C6_OperationOrder ==
    /\ \A i \in 1..Len(pd_calls) :
          /\ pd_calls[i] = "open" => i = 1
          /\ pd_calls[i] \in PDLoads =>
                /\ i = 2 /\ pd_calls[1] = "open"
                /\ pd_calls[i] = (IF pd_args.replace THEN "load_replace_candidate"
                                  ELSE "load_merge_candidate")
          /\ pd_calls[i] = "compare_config" => i = 3 /\ pd_calls[2] \in PDLoads
          /\ pd_calls[i] = "commit_config" =>
                /\ i = 4 /\ pd_calls[3] = "compare_config"
                /\ pd_diff # "" /\ ~pd_args.dry_run /\ pd_args.commit
    /\ PDNormalDone =>
          /\ Len(pd_calls) >= 4
          /\ pd_calls[1] = "open" /\ pd_calls[2] \in PDLoads
          /\ pd_calls[3] = "compare_config"
          /\ IF pd_diff # "" /\ ~pd_args.dry_run /\ pd_args.commit
             THEN pd_calls[4] = "commit_config" /\ Count(pd_calls, "discard_config") = 0
             ELSE pd_calls[4] = "discard_config" /\ Count(pd_calls, "commit_config") = 0

C6_Witness ==
    /\ PDNormalDone
    /\ ~pd_args.dry_run /\ pd_args.commit /\ ~pd_args.replace
    /\ pd_calls = <<"open", "load_merge_candidate", "compare_config",
                    "commit_config", "get_facts", "close">>

\* C7: once the driver object exists, close() is called exactly once before
\* _deploy_config returns, on every path (and never more than once before).
C7_CloseExactlyOnce ==
    /\ Count(pd_calls, "close") <= 1
    /\ (pd_pc = "done" /\ pd_napalm_device) =>
          /\ Count(pd_calls, "close") = 1
          /\ pd_calls[Len(pd_calls)] = "close"

C7_Witness ==
    /\ pd_pc = "done"
    /\ pd_exc.kind = "MergeConfigException"
    /\ pd_calls = <<"open", "load_merge_candidate", "discard_config", "close">>

\* C9: when load_replace_candidate or commit_config raised CommitError or
\* ReplaceConfigException, no candidate configuration is left pending on the
\* device when _deploy_config has closed the session and returned.
C9_RolledBackBeforeClose ==
    ( /\ pd_pc = "done"
      /\ pd_exc.kind \in {"CommitError", "ReplaceConfigException"}
      /\ pd_exc.by \in {"load_replace_candidate", "commit_config"} )
    => ~pd_dev.candidate

(***************************************************************************)
(* Claims about ConfigureNetworkServices (SpecNetworkServices)             *)
(***************************************************************************)
\* Leading words of a command.
BeginsWith(cmd, words) ==
    /\ Len(cmd) >= Len(words)
    /\ SubSeq(cmd, 1, Len(words)) = words

\* C2: with dry_run true the run never opens an eAPI connection and never
\* sends a configuration or save command, for every device list, context and
\* flag combination.
C2_DryRunSendsNothing ==
    ns_args.dry_run =>
        /\ ns_wire = <<>>
        /\ \A d \in DOMAIN ns_connects : ns_connects[d] = 0

C2_Witness ==
    /\ ns_pc = "for"
    /\ ns_args.dry_run
    /\ ns_mgmt_interface = "Management0"
    /\ Len(ns_config_commands) >= 4
    /\ ns_log = <<"DRY RUN - Configuration not applied">>

\* The reset command of each service and the leading words of the commands that
\* set a value of that service.
ResetTable ==
    << [reset |-> <<"default", "dns", "domain">>, sets |-> {<<"dns", "domain">>}],
       [reset |-> <<"default", "ntp">>,
        sets |-> {<<"ntp", "server">>, <<"ntp", "local-interface">>}],
       [reset |-> <<"default", "ip", "name-server">>, sets |-> {<<"ip", "name-server">>}],
       [reset |-> <<"default", "logging", "host">>,
        sets |-> {<<"logging", "host">>, <<"logging", "source-interface">>,
                  <<"logging", "buffered">>}],
       [reset |-> <<"default", "snmp-server">>,
        sets |-> {<<"snmp-server", "community">>, <<"snmp-server", "location">>}] >>

\* C4: in the command list built for an Arista device each reset command
\* appears at most once, and every command that sets a value of a service
\* comes after that service's reset command.
C4_DefaultBeforeReapply ==
    ns_mgmt_interface = "Management0" =>
        \A r \in 1..Len(ResetTable) :
            LET resets == {k \in 1..Len(ns_config_commands) :
                              ns_config_commands[k] = ResetTable[r].reset}
                setters == {k \in 1..Len(ns_config_commands) :
                              \E w \in ResetTable[r].sets :
                                  BeginsWith(ns_config_commands[k], w)}
            IN  /\ Cardinality(resets) <= 1
                /\ setters # {} => resets # {}
                /\ \A i \in resets, j \in setters : i < j

C4_Witness ==
    /\ ns_mgmt_interface = "Management0"
    /\ ns_config_commands =
         << <<"default", "dns", "domain">>, <<"dns", "domain", "lab.local">>,
            <<"default", "ntp">>, <<"ntp", "server", "10.0.0.1">>,
            <<"ntp", "local-interface", "Management0">>,
            <<"default", "ip", "name-server">>, <<"ip", "name-server", "10.0.0.1">>,
            <<"default", "logging", "host">>, <<"logging", "host", "10.0.0.1">>,
            <<"logging", "source-interface", "Management0">>,
            <<"logging", "buffered", "10000">>,
            <<"default", "snmp-server">>, <<"snmp-server", "community", "public", "ro">>,
            <<"snmp-server", "location", "lab">> >>

\* First words of the Arista EOS commands the job can generate.
AristaFirstWords == {"default", "dns", "ntp", "ip", "logging", "snmp-server"}

\* C5: management_interface alone selects the dialect: 'Management0' gives only
\* Arista EOS commands, none beginning with '/ system'; 'mgmt0' gives only
\* commands beginning with '/ system', none with 'default'; any other value
\* (or no platform_specific data) gives no command and no connection.
C5_DialectByManagementInterface ==
    /\ ns_mgmt_interface = "Management0" =>
          \A k \in 1..Len(ns_config_commands) :
              /\ ns_config_commands[k][1] \in AristaFirstWords
              /\ ~BeginsWith(ns_config_commands[k], <<"/", "system">>)
    /\ ns_mgmt_interface = "mgmt0" =>
          \A k \in 1..Len(ns_config_commands) :
              /\ BeginsWith(ns_config_commands[k], <<"/", "system">>)
              /\ ~BeginsWith(ns_config_commands[k], <<"default">>)
    /\ ns_mgmt_interface \notin {"Management0", "mgmt0"} =>
          /\ ns_config_commands = <<>>
          /\ ns_wire = <<>>

C5_Witness ==
    /\ ns_mgmt_interface = "mgmt0"
    /\ ns_config_commands =
         << <<"/", "system", "name", "domain-name", "lab.local">>,
            <<"/", "system", "ntp", "server", "10.0.0.1">>,
            <<"/", "system", "dns", "server-list", "[", "10.0.0.1", "]">>,
            <<"/", "system", "logging", "remote-server", "10.0.0.1", "port", "514">>,
            <<"/", "system", "snmp", "community", "public", "access-permissions", "ro">>,
            <<"/", "system", "snmp", "location", "lab">> >>

\* The push to the current device failed: a pyeapi call raised.
NSPushFailed ==
    /\ ns_wire # <<>>
    /\ "Configuration applied successfully" \notin {ns_log[k] : k \in 1..Len(ns_log)}

\* C10: with dry_run false a failed push is logged and the job continues: run
\* never ends by raising, after a failure the loop is back at its head, a
\* finished run has taken every device of the list (also those after a failed
\* one), and no device is connected to more than once.
C10_FailureLoggedAndContinue ==
    /\ ns_pc # "raised"
    /\ NSPushFailed =>
          /\ ns_log = <<"Failed to connect", "Failed to apply configuration">>
          /\ ns_devices[ns_i] \in ns_failed
          /\ ns_pc = "for"
    /\ ns_pc = "done" => ns_i = Len(ns_devices)
    /\ \A d \in DOMAIN ns_connects : ns_connects[d] <= 1
    /\ \A d \in ns_failed : d <= ns_i /\ ns_connects[d] = 1
    /\ Len(SelectSeq(ns_wire, LAMBDA e : e.op = "connect")) <= 1

\* The first device failed, and the second was still connected to and configured.
C10_Witness ==
    /\ ns_pc = "done"
    /\ ~ns_args.dry_run
    /\ ns_i = 2 /\ Len(ns_devices) = 2
    /\ ns_failed = {1}
    /\ ns_connects = <<1, 1>>

(***************************************************************************)
(* Claims about PreflightDataJob (SpecPreflight)                           *)
(***************************************************************************)
\* C3: with dry_run true the run changes nothing: when it has ended, the
\* LocationType, CustomField, CustomFieldChoice, Location and Status records
\* and the content types of each Status and LocationType are what they were
\* before the run.
C3_DryRunChangesNothing ==
    (pf_dry_run /\ pf_pc \in {"returned", "raised"}) => pf_db = pf_db0

(***************************************************************************)
(* Claims about the device sessions (SpecSessions)                         *)
(***************************************************************************)
\* C8: every session that _run_ping_test_via_ssh or DeviceSyncNAPALM.run
\* opened is closed when the job method has returned, also when an operation
\* after the successful connect/open raised.
C8_SessionsClosedOnReturn ==
    /\ ct_pc = "returned" => ~ct_ssh_open
    /\ ds_pc = "done" => ~ds_open

(***************************************************************************)
(* Claims about DeviceJobHookReceiver (SpecDeviceHook)                     *)
(***************************************************************************)
\* C11: when _provision_device has been called for a device that passes
\* _validate_device_ready, ProvisionDevice.run has been executed once for that
\* device with the hook's dry_run, replace_config false and commit_changes
\* true, and 'Provision job completed' is logged only after a run.
C11_ProvisionRunExecuted ==
    /\ (dh_pc = "done" /\ dh_triggered > 0 /\ ValidateDeviceReady(dh_device)) =>
          /\ Len(dh_runs) = 1
          /\ dh_runs[1].device = dh_device
          /\ dh_runs[1].dry_run = dh_in.dry_run
          /\ dh_runs[1].replace_config = FALSE
          /\ dh_runs[1].commit_changes = TRUE
    /\ Count(dh_log, "Provision job completed") > 0 => Len(dh_runs) > 0

\* C12: _provision_device is called only for a found device and only when the
\* action is created/create with auto_provision_on_create, or updated/update
\* with a changed field among name, primary_ip4, platform, role, location,
\* status and auto_provision_on_update; never for a deleted, unknown or
\* missing action.
C12_ProvisionOnlyWhenEnabled ==
    dh_triggered > 0 =>
        /\ dh_triggered = 1
        /\ dh_device.found
        /\ \/ dh_in.action \in {"created", "create"} /\ dh_in.auto_provision_on_create
           \/ /\ dh_in.action \in {"updated", "update"}
              /\ dh_in.auto_provision_on_update
              /\ \E f \in {"name", "primary_ip4", "platform", "role", "location", "status"} :
                    f \in ChangedFields(dh_in)

C12_Witness ==
    /\ dh_triggered = 1
    /\ dh_in.action = "update"
    /\ dh_in.object_change
    /\ ChangedFields(dh_in) = {"status"}

C14_DevicesHaveSecretsGroup ==
    (ls_pc = "done" /\ ls_devices0 = {}) =>
        /\ {"Arista NAPALM Secrets Group", "Nokia NAPALM Secrets Group"}
               \subseteq ls_secrets_groups
        /\ DOMAIN ls_devices = {"access1", "access2", "dist1", "rtr1"}
        /\ ls_devices["access1"] = "Arista NAPALM Secrets Group"
        /\ ls_devices["access2"] = "Arista NAPALM Secrets Group"
        /\ ls_devices["dist1"] = "Nokia NAPALM Secrets Group"
        /\ ls_devices["rtr1"] = "Nokia NAPALM Secrets Group"

(***************************************************************************)
(* Claims about the transaction of PreflightDataJob.run (SpecPreflight)    *)
(***************************************************************************)
\* C18: when a step of the run raised, the failure is logged, the exception
\* is re-raised and the inventory is what it was before the run: nothing an
\* earlier step of the same run created or modified persists.
C18_RaiseRollsBack ==
    pf_pc = "raised" =>
        /\ pf_db = pf_db0
        /\ Len(pf_log) > 0
        /\ pf_log[Len(pf_log)] = "Failed to setup pre-flight data"

C18_Witness ==
    /\ pf_pc = "raised"
    /\ ~pf_dry_run
    /\ pf_db0.location_types = <<>>
    /\ pf_db0.custom_fields = <<>>
    /\ "Ensuring locations exist..." \in Range(pf_log)

(***************************************************************************)
(* Claims about ContainerlabConnectivityTest.run (SpecSessions)            *)
(***************************************************************************)
\* C15: when source and destination are the same VM, a VM has no eth1 or no
\* address on eth1, or the source has neither primary_ip4 nor primary_ip, no
\* paramiko call is ever made and run returns an error string; in every other
\* case run returns the result of one ping test, with one SSH connect when
\* paramiko is available and never more than one.
C15_PingOnlyWhenAddressed ==
    LET no_test == \/ ct_in.same_vm
                   \/ ct_in.source_eth1 \in {"none", "noip"}
                   \/ ct_in.dest_eth1 \in {"none", "noip"}
                   \/ ct_in.source_mgmt = "none"
    IN  /\ no_test => ct_calls = <<>> /\ ~ct_ssh_open
        /\ ct_pc = "returned" =>
              IF no_test
              THEN ct_result \in {"Error: Cannot test connectivity to same VM",
                                  "Error: source has no eth1 IP address",
                                  "Error: destination has no eth1 IP address",
                                  "Error: source has no management IP"}
              ELSE /\ ct_result \in {"SUCCESS", "FAILED"}
                   /\ Count(ct_calls, "connect") = (IF ct_in.paramiko THEN 1 ELSE 0)

C15_Witness ==
    /\ ct_pc = "returned"
    /\ ~ct_in.same_vm
    /\ ct_in.source_eth1 = "ip"
    /\ ct_in.dest_eth1 = "noip"
    /\ ct_in.source_mgmt = "primary_ip"

\* C16: once the ping test is reached, run returns SUCCESS exactly when the
\* remote ping exited with code 0 (and nothing raised); a missing paramiko
\* library or any exception caught by the test gives FAILED, and run always
\* returns a result.
C16_SuccessIffExitZero ==
    (ct_pc = "returned" /\ PreCheck(ct_in) = "") =>
        /\ ct_result \in {"SUCCESS", "FAILED"}
        /\ (~ct_in.paramiko \/ ct_exc # "none") => ct_result = "FAILED"
        /\ (ct_in.paramiko /\ ct_exc = "none") =>
              (ct_result = "SUCCESS" <=> ct_exit_code = 0)

C16_Witness ==
    /\ ct_pc = "returned"
    /\ ct_result = "FAILED"
    /\ ct_exc = "socket.timeout"
    /\ ct_calls = <<"connect", "exec_command", "recv_exit_status">>

(***************************************************************************)
(* Claims about DeviceStatusMonitor (SpecMonitoring)                       *)
(***************************************************************************)
\* The calls made for a device all returned, the open among them.
SMAllCallsOk(name) ==
    /\ \E k \in 1..Len(sm_calls) : sm_calls[k] = <<name, "open", "ok">>
    /\ \A k \in 1..Len(sm_calls) : sm_calls[k][1] = name => sm_calls[k][3] = "ok"

\* C19: a monitored device whose session opened and whose requested getters
\* (and the status save) all succeeded is set to Active, never to Failed, and
\* is recorded as connected, for every combination of check_system and
\* check_interfaces.
C19_ReachableDeviceIsActive ==
    sm_pc = "done" =>
        \A name \in Range(sm_devices) :
            SMAllCallsOk(name) =>
                /\ sm_status[name] = "Active"
                /\ name \in DOMAIN sm_results
                /\ sm_results[name].status = "connected"

(***************************************************************************)
(* Claims about the device loops of DeviceStatusMonitor and                *)
(* NetworkDiscovery (SpecMonitoring)                                       *)
(***************************************************************************)
\* C17: at most one NAPALM session is open at any time; when the session of
\* the next device is about to be opened, and when the loop is over, none is
\* open, also after a getter or an inventory save raised inside the session.
C17_OneSessionAtATime ==
    /\ Cardinality(sm_open) <= 1
    /\ Cardinality(nd_open) <= 1
    /\ sm_pc \in {"for", "enter", "except", "done"} => sm_open = {}
    /\ nd_pc \in {"for", "enter", "except", "done"} => nd_open = {}

C17_Witness ==
    /\ nd_pc = "enter"
    /\ nd_i = 2
    /\ nd_open = {}
    /\ <<nd_devices[1], "save", "raised">> \in Range(nd_calls)

(***************************************************************************)
(* Claims about the access-loopback scripts (SpecLoopbacks)                *)
(***************************************************************************)
\* C20: the loopback addresses pushed to different devices are pairwise
\* distinct: no device's Loopback1 address equals another device's Loopback0
\* or Loopback1 address, and no two devices share a Loopback0 address.
C20_LoopbacksDistinct ==
    \A a, b \in 1..Len(lb_pushed) :
        a # b =>
            /\ lb_pushed[a].lo1 # lb_pushed[b].lo0
            /\ lb_pushed[a].lo1 # lb_pushed[b].lo1
            /\ lb_pushed[a].lo0 # lb_pushed[b].lo0

(***************************************************************************)
(* Claims about the eAPI pushes of ConfigureNetworkServices and            *)
(* InterfaceJobHookReceiver (SpecPushes)                                   *)
(***************************************************************************)
\* Positions of the operations of one kind in the wire of a push.
NSOps(op) == {k \in 1..Len(ns_wire) : ns_wire[k].op = op}
IHOps(op) == {k \in 1..Len(ih_wire) : ih_wire[k][1][1] = op}

\* C21: in a push the save command is sent at most once and only directly
\* after the one node.config, which returned without error; a call that
\* raised is the last one of the push, so that when node.config raised no
\* save command is sent, and the failure is logged by the push and,
\* re-raised, by its caller.
C21_SaveOnlyAfterConfig ==
    /\ Cardinality(NSOps("enable")) <= 1
    /\ \A k \in NSOps("enable") :
          /\ k > 1 /\ ns_wire[k - 1].op = "config" /\ ~ns_wire[k - 1].raised
          /\ Cardinality(NSOps("config")) = 1
          /\ ns_wire[k].arg \in {<<"write", "memory">>,
                                  AllExtras.cli_commands.save_config}
    /\ \A k \in 1..Len(ns_wire) :
          ns_wire[k].raised =>
             /\ k = Len(ns_wire)
             /\ ns_log = <<"Failed to connect", "Failed to apply configuration">>
    /\ Cardinality(IHOps("enable")) <= 1
    /\ \A k \in IHOps("enable") :
          /\ k > 1 /\ ih_wire[k - 1][1][1] = "config" /\ ~ih_wire[k - 1][2]
          /\ Cardinality(IHOps("config")) = 1
          /\ ih_wire[k][1][2] = <<"write", "memory">>
    /\ \A k \in 1..Len(ih_wire) :
          ih_wire[k][2] =>
             /\ k = Len(ih_wire)
             /\ ih_pc = "done"
             /\ ih_log = <<"Failed to connect/configure",
                           "Failed to configure interface">>

\* node.config raised in a push of ConfigureNetworkServices.
C21_Witness ==
    /\ Len(ns_wire) = 2
    /\ ns_wire[2].op = "config"
    /\ ns_wire[2].raised
    /\ ns_wire[2].arg # <<>>
    /\ ns_pc = "for"
    /\ ns_devices[ns_i] \in ns_failed

====
